---- MODULE Spec2Model ----
(***************************************************************************)
(* Model of the unshelve (restore) engine of the vscode-shelf extension:   *)
(* restoreFilesFromShelf / restoreSingleFile / showDiffForConflict /       *)
(* insertConflictMarkers of shelfOperations.ts.                            *)
(*                                                                         *)
(* A text is a sequence of symbols.  A symbol is one character ("a", "\n", *)
(* "\r", ...) or one of the literal marker strings the engine inserts,     *)
(* which no sample text contains; sequence equality is then byte equality  *)
(* (Buffer.compare(...) === 0).                                            *)
(***************************************************************************)
EXTENDS Integers, Sequences, FiniteSets, TLC

----------------------------------------------------------------------------
(* Texts and line terminators *)

LF == "\n"
CR == "\r"

\* No regex match: detectLineEnding returns undefined.
NoMatch == <<>>

\* The marker literals of flushPending.
StartMarker == "<<<<<<< Current Workspace"
SepMarker == "======="
EndMarkerPrefix == ">>>>>>> Shelf: "

\* text.match(/\r\n|\n|\r/): the first terminator of the text, or NoMatch.
FirstTerminator(text) ==
    LET hits == {i \in 1..Len(text) : text[i] \in {LF, CR}}
    IN  IF hits = {} THEN NoMatch
        ELSE LET i == CHOOSE k \in hits : \A m \in hits : k <= m
             IN  IF text[i] = CR /\ i < Len(text) /\ text[i + 1] = LF
                 THEN <<CR, LF>>
                 ELSE <<text[i]>>

RECURSIVE detectLineEnding(_)
\* The first terminator found in the texts, scanned in order.
detectLineEnding(texts) ==
    IF texts = <<>> THEN NoMatch
    ELSE IF FirstTerminator(Head(texts)) # NoMatch
         THEN FirstTerminator(Head(texts))
         ELSE detectLineEnding(Tail(texts))

\* Mutant: the shelved text is searched before the current one.
LineEndingOf_ShelfFirst(currentText, shelfText, osEOL) ==
    LET le == detectLineEnding(<<shelfText, currentText>>)
    IN  IF le = NoMatch THEN osEOL ELSE le

\* detectLineEnding(currentText, shelfText) ?? os.EOL
LineEndingOf(currentText, shelfText, osEOL) ==
    LET le == detectLineEnding(<<currentText, shelfText>>)
    IN  IF le = NoMatch THEN osEOL ELSE le

\* value.endsWith('\n') || value.endsWith('\r')
EndsWithTerminator(value) ==
    Len(value) > 0 /\ value[Len(value)] \in {LF, CR}

----------------------------------------------------------------------------
(* The line differ: diffLines of the `diff` package, as called at          *)
(* insertConflictMarkers.  Lines keep their terminator; a line ends at     *)
(* "\n" or at the end of the text.                                         *)

RECURSIVE SplitLines(_, _)
\* The lines of `text`, `acc` being the line under construction.
SplitLines(text, acc) ==
    IF text = <<>> THEN (IF acc = <<>> THEN <<>> ELSE <<acc>>)
    ELSE IF Head(text) = LF
         THEN <<Append(acc, LF)>> \o SplitLines(Tail(text), <<>>)
         ELSE SplitLines(Tail(text), Append(acc, Head(text)))

\* Mutant: the lines lose their terminators, as text.split does.
Tokenize_WithoutTerminators(text) ==
    LET lines == SplitLines(text, <<>>)
        Kept(c) == c \notin {LF, CR}
    IN  [i \in DOMAIN lines |-> SelectSeq(lines[i], Kept)]

Tokenize(text) == SplitLines(text, <<>>)

RECURSIVE LcsLen(_, _)
\* Length of a longest common subsequence of two line sequences.
LcsLen(a, b) ==
    IF a = <<>> \/ b = <<>> THEN 0
    ELSE IF Head(a) = Head(b) THEN 1 + LcsLen(Tail(a), Tail(b))
    ELSE LET x == LcsLen(Tail(a), b)
             y == LcsLen(a, Tail(b))
         IN  IF x >= y THEN x ELSE y

RECURSIVE EditScript(_, _)
\* A shortest edit script from a to b, one operation per line; in a changed
\* region the removals come before the additions.
EditScript(a, b) ==
    IF a = <<>> /\ b = <<>> THEN <<>>
    ELSE IF a = <<>>
         THEN <<[tag |-> "added", value |-> Head(b)]>> \o EditScript(a, Tail(b))
    ELSE IF b = <<>>
         THEN <<[tag |-> "removed", value |-> Head(a)]>> \o EditScript(Tail(a), b)
    ELSE IF Head(a) = Head(b)
         THEN <<[tag |-> "unchanged", value |-> Head(a)]>>
              \o EditScript(Tail(a), Tail(b))
    ELSE IF LcsLen(Tail(a), b) >= LcsLen(a, Tail(b))
         THEN <<[tag |-> "removed", value |-> Head(a)]>> \o EditScript(Tail(a), b)
         ELSE <<[tag |-> "added", value |-> Head(b)]>> \o EditScript(a, Tail(b))

RECURSIVE MergeRuns(_)
\* Consecutive operations of one tag become one segment holding their text.
MergeRuns(ops) ==
    IF Len(ops) <= 1 THEN ops
    ELSE LET rest == MergeRuns(Tail(ops))
         IN  IF Head(ops).tag = Head(rest).tag
             THEN <<[tag |-> Head(ops).tag,
                     value |-> Head(ops).value \o Head(rest).value]>>
                  \o Tail(rest)
             ELSE <<Head(ops)>> \o rest

\* diffLines(currentText, shelfText): the ordered diff segments.
diffLines(currentText, shelfText) ==
    MergeRuns(EditScript(Tokenize(currentText), Tokenize(shelfText)))

----------------------------------------------------------------------------
(* The line conflict-marker builder *)

\* Mutant: a line ending is pushed after each side, terminated or not.
flushPending_AlwaysPads(pendingRemoved, addedValue, entryName, lineEnding) ==
    <<StartMarker>> \o lineEnding
    \o (IF pendingRemoved # <<>> THEN pendingRemoved \o lineEnding ELSE <<>>)
    \o <<SepMarker>> \o lineEnding
    \o (IF addedValue # <<>> THEN addedValue \o lineEnding ELSE <<>>)
    \o <<EndMarkerPrefix, entryName>> \o lineEnding

\* One conflict block: what flushPending(addedValue) pushes onto builder.
flushPending(pendingRemoved, addedValue, entryName, lineEnding) ==
    <<StartMarker>> \o lineEnding
    \o (IF pendingRemoved # <<>>
        THEN pendingRemoved
             \o (IF EndsWithTerminator(pendingRemoved) THEN <<>> ELSE lineEnding)
        ELSE <<>>)
    \o <<SepMarker>> \o lineEnding
    \o (IF addedValue # <<>>
        THEN addedValue
             \o (IF EndsWithTerminator(addedValue) THEN <<>> ELSE lineEnding)
        ELSE <<>>)
    \o <<EndMarkerPrefix, entryName>> \o lineEnding

RECURSIVE BuildMarked(_, _, _, _)
\* Mutant: the pending buffer is not emptied by the flush of an added segment.
BuildMarked_KeepsPending(diffs, pendingRemoved, entryName, lineEnding) ==
    IF diffs = <<>>
    THEN IF pendingRemoved # <<>>
         THEN flushPending(pendingRemoved, <<>>, entryName, lineEnding)
         ELSE <<>>
    ELSE LET part == Head(diffs)
         IN  IF part.tag = "removed"
             THEN BuildMarked(Tail(diffs), pendingRemoved \o part.value,
                              entryName, lineEnding)
             ELSE IF part.tag = "added"
             THEN flushPending(pendingRemoved, part.value, entryName, lineEnding)
                  \o BuildMarked(Tail(diffs), pendingRemoved, entryName, lineEnding)
             ELSE (IF pendingRemoved # <<>>
                   THEN flushPending(pendingRemoved, <<>>, entryName, lineEnding)
                   ELSE <<>>)
                  \o part.value
                  \o BuildMarked(Tail(diffs), <<>>, entryName, lineEnding)

\* Mutant: an unchanged segment is preceded by a block even when nothing
\* was removed before it.
BuildMarked_FlushBeforeUnchanged(diffs, pendingRemoved, entryName, lineEnding) ==
    IF diffs = <<>>
    THEN IF pendingRemoved # <<>>
         THEN flushPending(pendingRemoved, <<>>, entryName, lineEnding)
         ELSE <<>>
    ELSE LET part == Head(diffs)
         IN  IF part.tag = "removed"
             THEN BuildMarked(Tail(diffs), pendingRemoved \o part.value,
                              entryName, lineEnding)
             ELSE IF part.tag = "added"
             THEN flushPending(pendingRemoved, part.value, entryName, lineEnding)
                  \o BuildMarked(Tail(diffs), <<>>, entryName, lineEnding)
             ELSE flushPending(pendingRemoved, <<>>, entryName, lineEnding)
                  \o part.value
                  \o BuildMarked(Tail(diffs), <<>>, entryName, lineEnding)

\* The loop over the diff segments with its pendingRemoved buffer, and the
\* flush after the loop; yields builder.join('').
BuildMarked(diffs, pendingRemoved, entryName, lineEnding) ==
    IF diffs = <<>>
    THEN IF pendingRemoved # <<>>
         THEN flushPending(pendingRemoved, <<>>, entryName, lineEnding)
         ELSE <<>>
    ELSE LET part == Head(diffs)
         IN  IF part.tag = "removed"
             THEN BuildMarked(Tail(diffs), pendingRemoved \o part.value,
                              entryName, lineEnding)
             ELSE IF part.tag = "added"
             THEN flushPending(pendingRemoved, part.value, entryName, lineEnding)
                  \o BuildMarked(Tail(diffs), <<>>, entryName, lineEnding)
             ELSE (IF pendingRemoved # <<>>
                   THEN flushPending(pendingRemoved, <<>>, entryName, lineEnding)
                   ELSE <<>>)
                  \o part.value
                  \o BuildMarked(Tail(diffs), <<>>, entryName, lineEnding)

\* The text the line-based builder writes for (currentText, shelfText).
LineMarkedText(entryName, currentText, shelfText, osEOL) ==
    BuildMarked(diffLines(currentText, shelfText), <<>>, entryName,
                LineEndingOf(currentText, shelfText, osEOL))

----------------------------------------------------------------------------
(* JSON values, as JSON.parse yields them *)

\* A value carries its kind `t`, the printed form `p` of a number or boolean
\* (the characters of a string), and the `keys` and `kids` of an object (the
\* elements of an array are its kids).  Numbers are non-negative integers
\* and strings hold no escape: the sample texts use no sign, fraction,
\* exponent or backslash.
JUndefined == [t |-> "undefined", p |-> <<>>, keys |-> <<>>, kids |-> <<>>]
JNull == [t |-> "null", p |-> <<>>, keys |-> <<>>, kids |-> <<>>]
JPrim(t, p) == [t |-> t, p |-> p, keys |-> <<>>, kids |-> <<>>]
JArray(kids) == [t |-> "array", p |-> <<>>, keys |-> <<>>, kids |-> kids]
JObject(keys, kids) == [t |-> "object", p |-> <<>>, keys |-> keys, kids |-> kids]

\* typeof value
typeof(v) ==
    IF v.t \in {"null", "array", "object"} THEN "object" ELSE v.t

DigitChars == <<"0", "1", "2", "3", "4", "5", "6", "7", "8", "9">>

IsDigit(c) == \E d \in DOMAIN DigitChars : DigitChars[d] = c

DigitValue(c) == (CHOOSE d \in DOMAIN DigitChars : DigitChars[d] = c) - 1

RECURSIVE ToDecimal(_)
\* String(i) for an index i >= 0.
ToDecimal(i) ==
    IF i < 10 THEN <<DigitChars[i + 1]>>
    ELSE ToDecimal(i \div 10) \o <<DigitChars[(i % 10) + 1]>>

\* A key that is a canonical array index ("0", "7", "12"): objects list
\* these first, in ascending order.
IsIndexKey(k) ==
    /\ Len(k) >= 1
    /\ \A i \in DOMAIN k : IsDigit(k[i])
    /\ Len(k) > 1 => k[1] # "0"

RECURSIVE KeyNum(_)
KeyNum(k) ==
    IF k = <<>> THEN 0
    ELSE 10 * KeyNum(SubSeq(k, 1, Len(k) - 1)) + DigitValue(k[Len(k)])

\* Object.keys(v) of an object or an array.
ObjectKeys(v) ==
    IF v.t = "array" THEN [i \in 1..Len(v.kids) |-> ToDecimal(i - 1)] ELSE v.keys

\* key in v
HasKey(v, key) == \E i \in DOMAIN ObjectKeys(v) : ObjectKeys(v)[i] = key

\* v[key]
GetKey(v, key) ==
    IF HasKey(v, key)
    THEN v.kids[CHOOSE i \in DOMAIN ObjectKeys(v) : ObjectKeys(v)[i] = key]
    ELSE JUndefined

\* array[index], index counted from 0.
GetIndex(v, index) ==
    IF index < Len(v.kids) THEN v.kids[index + 1] ELSE JUndefined

\* obj[key] = val while an object literal is parsed: a repeated key keeps its
\* place and takes the last value, an index key goes among the index keys, any
\* other key goes last.
SetKey(obj, key, val) ==
    IF HasKey(obj, key)
    THEN LET i == CHOOSE j \in DOMAIN obj.keys : obj.keys[j] = key
         IN  JObject(obj.keys, [obj.kids EXCEPT ![i] = val])
    ELSE IF IsIndexKey(key)
    THEN LET n == Cardinality({j \in DOMAIN obj.keys :
                                  /\ IsIndexKey(obj.keys[j])
                                  /\ KeyNum(obj.keys[j]) < KeyNum(key)})
         IN  JObject(SubSeq(obj.keys, 1, n) \o <<key>>
                         \o SubSeq(obj.keys, n + 1, Len(obj.keys)),
                     SubSeq(obj.kids, 1, n) \o <<val>>
                         \o SubSeq(obj.kids, n + 1, Len(obj.kids)))
    ELSE JObject(Append(obj.keys, key), Append(obj.kids, val))

----------------------------------------------------------------------------
(* JSON.parse *)

Quote == "\""
Space == " "
Tab == "\t"

JsonWhitespace == {Space, LF, CR, Tab}

ParseFail == [ok |-> FALSE, val |-> JUndefined, pos |-> 0]

\* A value was read; `pos` is the index of the first character after it.
ParseOk(val, pos) == [ok |-> TRUE, val |-> val, pos |-> pos]

RECURSIVE SkipWs(_, _)
SkipWs(text, i) ==
    IF i <= Len(text) /\ text[i] \in JsonWhitespace THEN SkipWs(text, i + 1) ELSE i

\* The literals null, true and false.
ParseLiteral(text, i, word, val) ==
    IF i + Len(word) - 1 <= Len(text) /\ SubSeq(text, i, i + Len(word) - 1) = word
    THEN ParseOk(val, i + Len(word))
    ELSE ParseFail

\* A string starting at the quote text[i]; control characters may not occur
\* in it.
ParseString(text, i) ==
    LET ends == {j \in (i + 1)..Len(text) : text[j] = Quote}
    IN  IF ends = {} THEN ParseFail
        ELSE LET j == CHOOSE k \in ends : \A m \in ends : k <= m
                 chars == SubSeq(text, i + 1, j - 1)
             IN  IF \E k \in DOMAIN chars : chars[k] \in {LF, CR, Tab}
                 THEN ParseFail
                 ELSE ParseOk(JPrim("string", chars), j + 1)

\* A number starting at the digit text[i]: "0", or a run of digits that does
\* not start with "0".
ParseNumber(text, i) ==
    IF text[i] = "0" THEN ParseOk(JPrim("number", <<"0">>), i + 1)
    ELSE LET stops == {j \in (i + 1)..(Len(text) + 1) :
                          j = Len(text) + 1 \/ ~IsDigit(text[j])}
             j == CHOOSE k \in stops : \A m \in stops : k <= m
         IN  ParseOk(JPrim("number", SubSeq(text, i, j - 1)), j)

RECURSIVE ParseValue(_, _)
RECURSIVE ParseElements(_, _, _)
RECURSIVE ParseMembers(_, _, _)

\* The elements of an array after "[", `acc` holding those read so far.
ParseElements(text, i, acc) ==
    LET v == ParseValue(text, i)
    IN  IF ~v.ok THEN ParseFail
        ELSE LET j == SkipWs(text, v.pos)
             IN  IF j > Len(text) THEN ParseFail
                 ELSE IF text[j] = "," THEN ParseElements(text, j + 1, Append(acc, v.val))
                 ELSE IF text[j] = "]" THEN ParseOk(JArray(Append(acc, v.val)), j + 1)
                 ELSE ParseFail

\* The members of an object after "{", `obj` holding those read so far.
ParseMembers(text, i, obj) ==
    LET k == SkipWs(text, i)
    IN  IF k > Len(text) \/ text[k] # Quote THEN ParseFail
        ELSE LET key == ParseString(text, k)
                 c == SkipWs(text, key.pos)
             IN  IF ~key.ok \/ c > Len(text) \/ text[c] # ":" THEN ParseFail
                 ELSE LET v == ParseValue(text, c + 1)
                          j == SkipWs(text, v.pos)
                      IN  IF ~v.ok \/ j > Len(text) THEN ParseFail
                          ELSE IF text[j] = ","
                          THEN ParseMembers(text, j + 1, SetKey(obj, key.val.p, v.val))
                          ELSE IF text[j] = "}"
                          THEN ParseOk(SetKey(obj, key.val.p, v.val), j + 1)
                          ELSE ParseFail

\* One JSON value, leading whitespace skipped.
ParseValue(text, i0) ==
    LET i == SkipWs(text, i0)
    IN  IF i > Len(text) THEN ParseFail
        ELSE IF text[i] = "{"
        THEN LET j == SkipWs(text, i + 1)
             IN  IF j <= Len(text) /\ text[j] = "}"
                 THEN ParseOk(JObject(<<>>, <<>>), j + 1)
                 ELSE ParseMembers(text, j, JObject(<<>>, <<>>))
        ELSE IF text[i] = "["
        THEN LET j == SkipWs(text, i + 1)
             IN  IF j <= Len(text) /\ text[j] = "]"
                 THEN ParseOk(JArray(<<>>), j + 1)
                 ELSE ParseElements(text, j, <<>>)
        ELSE IF text[i] = Quote THEN ParseString(text, i)
        ELSE IF IsDigit(text[i]) THEN ParseNumber(text, i)
        ELSE IF text[i] = "n" THEN ParseLiteral(text, i, <<"n", "u", "l", "l">>, JNull)
        ELSE IF text[i] = "t"
        THEN ParseLiteral(text, i, <<"t", "r", "u", "e">>,
                          JPrim("boolean", <<"t", "r", "u", "e">>))
        ELSE IF text[i] = "f"
        THEN ParseLiteral(text, i, <<"f", "a", "l", "s", "e">>,
                          JPrim("boolean", <<"f", "a", "l", "s", "e">>))
        ELSE ParseFail

\* What tryParseJson returns when the parser has read `r` at the head of
\* the text: the value if only whitespace follows it, a failure otherwise.
ParseResult(text, r) ==
    IF r.ok /\ SkipWs(text, r.pos) = Len(text) + 1
    THEN [success |-> TRUE, data |-> r.val]
    ELSE [success |-> FALSE, data |-> JUndefined]

\* tryParseJson: JSON.parse in a try block.
tryParseJson(text) == ParseResult(text, ParseValue(text, 1))

----------------------------------------------------------------------------
(* The JSON structural differ *)

\* The keys of both values, those of `current` first (new Set([...a, ...b])).
AllKeys(current, shelf) ==
    LET OnlyShelf(key) == ~HasKey(current, key)
    IN  ObjectKeys(current) \o SelectSeq(ObjectKeys(shelf), OnlyShelf)

RECURSIVE findJsonConflicts(_, _, _)
RECURSIVE ArrayConflicts(_, _, _, _)
RECURSIVE KeyConflicts(_, _, _, _)

\* The loop over the indices i .. maxLength - 1 of two arrays.
ArrayConflicts(current, shelf, path, i) ==
    IF i >= Len(current.kids) /\ i >= Len(shelf.kids) THEN <<>>
    ELSE (IF i >= Len(current.kids) \/ i >= Len(shelf.kids)
          THEN <<Append(path, ToDecimal(i))>>
          ELSE findJsonConflicts(GetIndex(current, i), GetIndex(shelf, i),
                                 Append(path, ToDecimal(i))))
         \o ArrayConflicts(current, shelf, path, i + 1)

\* Mutant: the loop ends at the first key that gives a conflict.
KeyConflicts_StopAtFirst(current, shelf, path, keys) ==
    IF keys = <<>> THEN <<>>
    ELSE LET here == IF ~HasKey(current, Head(keys)) \/ ~HasKey(shelf, Head(keys))
                     THEN <<Append(path, Head(keys))>>
                     ELSE findJsonConflicts(GetKey(current, Head(keys)),
                                            GetKey(shelf, Head(keys)),
                                            Append(path, Head(keys)))
         IN  IF here # <<>> THEN here
             ELSE KeyConflicts(current, shelf, path, Tail(keys))

\* The loop over the keys of two objects.
KeyConflicts(current, shelf, path, keys) ==
    IF keys = <<>> THEN <<>>
    ELSE (IF ~HasKey(current, Head(keys)) \/ ~HasKey(shelf, Head(keys))
          THEN <<Append(path, Head(keys))>>
          ELSE findJsonConflicts(GetKey(current, Head(keys)),
                                 GetKey(shelf, Head(keys)),
                                 Append(path, Head(keys))))
         \o KeyConflicts(current, shelf, path, Tail(keys))

\* Mutant: a null on either side is a conflict, whatever the other side is.
findJsonConflicts_NullAlwaysConflicts(current, shelf, path) ==
    IF typeof(current) # typeof(shelf) THEN <<path>>
    ELSE IF current.t # "null" /\ shelf.t # "null" /\ typeof(current) # "object"
    THEN (IF current.p # shelf.p THEN <<path>> ELSE <<>>)
    ELSE IF current.t = "null" \/ shelf.t = "null"
    THEN <<path>>
    ELSE IF current.t = "array" /\ shelf.t = "array"
    THEN ArrayConflicts(current, shelf, path, 0)
    ELSE IF typeof(current) = "object" /\ typeof(shelf) = "object"
    THEN KeyConflicts(current, shelf, path, AllKeys(current, shelf))
    ELSE <<>>

\* findJsonConflicts: the paths at which the two values disagree.
findJsonConflicts(current, shelf, path) ==
    IF typeof(current) # typeof(shelf) THEN <<path>>
    ELSE IF current.t # "null" /\ shelf.t # "null" /\ typeof(current) # "object"
    THEN (IF current.p # shelf.p THEN <<path>> ELSE <<>>)
    ELSE IF current.t = "null" \/ shelf.t = "null"
    THEN (IF current.t # shelf.t THEN <<path>> ELSE <<>>)
    ELSE IF current.t = "array" /\ shelf.t = "array"
    THEN ArrayConflicts(current, shelf, path, 0)
    ELSE IF typeof(current) = "object" /\ typeof(shelf) = "object"
    THEN KeyConflicts(current, shelf, path, AllKeys(current, shelf))
    ELSE <<>>

----------------------------------------------------------------------------
(* The JSON conflict-marker builder *)

DeletedLiteral == "(deleted)"
UndefinedLiteral == "undefined"
NullLiteral == <<"n", "u", "l", "l">>

\* ' '.repeat(n)
Spaces(n) == [i \in 1..n |-> Space]

RECURSIVE JoinWith(_, _)
\* parts.join(sep)
JoinWith(parts, sep) ==
    IF parts = <<>> THEN <<>>
    ELSE IF Len(parts) = 1 THEN Head(parts)
    ELSE Head(parts) \o sep \o JoinWith(Tail(parts), sep)

RECURSIVE Stringify(_, _)
\* JSON.stringify(value, null, 2), `indent` being the nesting depth.
Stringify(value, indent) ==
    IF value.t = "null" THEN NullLiteral
    ELSE IF value.t = "string" THEN <<Quote>> \o value.p \o <<Quote>>
    ELSE IF value.t \in {"number", "boolean"} THEN value.p
    ELSE IF value.t = "array"
    THEN IF value.kids = <<>> THEN <<"[", "]">>
         ELSE <<"[", LF>>
              \o JoinWith([i \in DOMAIN value.kids |->
                              Spaces(2 * (indent + 1))
                              \o Stringify(value.kids[i], indent + 1)],
                          <<",", LF>>)
              \o <<LF>> \o Spaces(2 * indent) \o <<"]">>
    ELSE IF value.keys = <<>> THEN <<"{", "}">>
         ELSE <<"{", LF>>
              \o JoinWith([i \in DOMAIN value.keys |->
                              Spaces(2 * (indent + 1))
                              \o <<Quote>> \o value.keys[i] \o <<Quote, ":", Space>>
                              \o Stringify(value.kids[i], indent + 1)],
                          <<",", LF>>)
              \o <<LF>> \o Spaces(2 * indent) \o <<"}">>

RECURSIVE IndentAfterFirst(_, _)
\* text.split('\n').map((line, i) => i === 0 ? line : prefix + line).join('\n')
IndentAfterFirst(text, prefix) ==
    IF text = <<>> THEN <<>>
    ELSE IF Head(text) = LF THEN <<LF>> \o prefix \o IndentAfterFirst(Tail(text), prefix)
    ELSE <<Head(text)>> \o IndentAfterFirst(Tail(text), prefix)

\* One side of a JSON conflict block.
SideText(value, indentStr) ==
    IF value.t = "undefined" THEN <<DeletedLiteral>>
    ELSE IndentAfterFirst(Stringify(value, 0), indentStr \o Spaces(2))

\* p.join('.'): the key under which a path is looked up in conflictSet.
PathKey(path) == JoinWith(path, <<".">>)

\* new Set(conflictPaths.map(p => p.join('.')))
ConflictSet(conflictPaths) ==
    {PathKey(conflictPaths[i]) : i \in DOMAIN conflictPaths}

RECURSIVE buildValue(_, _, _, _, _, _, _)
\* buildValue of buildJsonWithConflicts: a conflict block at a conflicting
\* path, otherwise the current value, its arrays and objects walked.
buildValue(currentVal, shelfVal, path, indent, conflictSet, entryName, lineEnding) ==
    LET indentStr == Spaces(2 * indent)
    IN  IF PathKey(path) \in conflictSet
        THEN <<StartMarker>> \o lineEnding
             \o indentStr \o Spaces(2) \o SideText(currentVal, indentStr) \o lineEnding
             \o indentStr \o <<SepMarker>> \o lineEnding
             \o indentStr \o Spaces(2) \o SideText(shelfVal, indentStr) \o lineEnding
             \o indentStr \o <<EndMarkerPrefix, entryName>> \o lineEnding
        ELSE IF currentVal.t = "null" THEN NullLiteral
        ELSE IF currentVal.t = "undefined" THEN <<UndefinedLiteral>>
        ELSE IF currentVal.t = "string" THEN <<Quote>> \o currentVal.p \o <<Quote>>
        ELSE IF currentVal.t \in {"number", "boolean"} THEN currentVal.p
        ELSE IF currentVal.t = "array"
        THEN IF currentVal.kids = <<>> THEN <<"[", "]">>
             ELSE LET shelfArray == IF shelfVal.t = "array" THEN shelfVal
                                    ELSE JArray(<<>>)
                  IN  <<"[", LF>>
                      \o JoinWith([i \in DOMAIN currentVal.kids |->
                                      indentStr \o Spaces(2)
                                      \o buildValue(currentVal.kids[i],
                                                    GetIndex(shelfArray, i - 1),
                                                    Append(path, ToDecimal(i - 1)),
                                                    indent + 1, conflictSet,
                                                    entryName, lineEnding)],
                                  <<",", LF>>)
                      \o <<LF>> \o indentStr \o <<"]">>
        ELSE LET shelfIsObject == shelfVal.t \in {"array", "object"}
                 allKeys == IF shelfIsObject THEN AllKeys(currentVal, shelfVal)
                            ELSE ObjectKeys(currentVal)
             IN  IF allKeys = <<>> THEN <<"{", "}">>
                 ELSE <<"{", LF>>
                      \o JoinWith([i \in DOMAIN allKeys |->
                                      indentStr \o Spaces(2)
                                      \o <<Quote>> \o allKeys[i] \o <<Quote, ":", Space>>
                                      \o buildValue(GetKey(currentVal, allKeys[i]),
                                                    IF shelfIsObject
                                                    THEN GetKey(shelfVal, allKeys[i])
                                                    ELSE JUndefined,
                                                    Append(path, allKeys[i]),
                                                    indent + 1, conflictSet,
                                                    entryName, lineEnding)],
                                  <<",", LF>>)
                      \o <<LF>> \o indentStr \o <<"}">>

\* buildJsonWithConflicts
buildJsonWithConflicts(current, shelf, conflictPaths, entryName, lineEnding) ==
    buildValue(current, shelf, <<>>, 0, ConflictSet(conflictPaths), entryName,
               lineEnding)

\* Mutant: the fallback does not end a side that lacks a line terminator.
flushPendingFallback_NoTerminatorFix(pendingRemoved, addedValue, entryName, lineEnding) ==
    <<StartMarker>> \o lineEnding
    \o pendingRemoved
    \o <<SepMarker>> \o lineEnding
    \o addedValue
    \o <<EndMarkerPrefix, entryName>> \o lineEnding

\* The fallback of insertJsonConflictMarkers when a text is not JSON: its
\* own copy of the line-based builder.
flushPendingFallback(pendingRemoved, addedValue, entryName, lineEnding) ==
    <<StartMarker>> \o lineEnding
    \o (IF pendingRemoved # <<>>
        THEN pendingRemoved
             \o (IF EndsWithTerminator(pendingRemoved) THEN <<>> ELSE lineEnding)
        ELSE <<>>)
    \o <<SepMarker>> \o lineEnding
    \o (IF addedValue # <<>>
        THEN addedValue
             \o (IF EndsWithTerminator(addedValue) THEN <<>> ELSE lineEnding)
        ELSE <<>>)
    \o <<EndMarkerPrefix, entryName>> \o lineEnding

RECURSIVE BuildMarkedFallback(_, _, _, _)
BuildMarkedFallback(diffs, pendingRemoved, entryName, lineEnding) ==
    IF diffs = <<>>
    THEN IF pendingRemoved # <<>>
         THEN flushPendingFallback(pendingRemoved, <<>>, entryName, lineEnding)
         ELSE <<>>
    ELSE LET part == Head(diffs)
         IN  IF part.tag = "removed"
             THEN BuildMarkedFallback(Tail(diffs), pendingRemoved \o part.value,
                                      entryName, lineEnding)
             ELSE IF part.tag = "added"
             THEN flushPendingFallback(pendingRemoved, part.value, entryName,
                                       lineEnding)
                  \o BuildMarkedFallback(Tail(diffs), <<>>, entryName, lineEnding)
             ELSE (IF pendingRemoved # <<>>
                   THEN flushPendingFallback(pendingRemoved, <<>>, entryName,
                                             lineEnding)
                   ELSE <<>>)
                  \o part.value
                  \o BuildMarkedFallback(Tail(diffs), <<>>, entryName, lineEnding)

\* Mutant: the JSON render runs even when no path conflicts.
JsonConflictText_AlwaysRender(currentText, current, shelf, conflictPaths, entryName, lineEnding) ==
    buildJsonWithConflicts(current, shelf, conflictPaths, entryName, lineEnding)

\* insertJsonConflictMarkers once both texts are parsed and the conflicting
\* paths are known: the current text as it is when there is none.
JsonConflictText(currentText, current, shelf, conflictPaths, entryName, lineEnding) ==
    IF conflictPaths = <<>> THEN currentText
    ELSE buildJsonWithConflicts(current, shelf, conflictPaths, entryName, lineEnding)

\* insertJsonConflictMarkers after its two calls of tryParseJson.
JsonParsedText(entryName, currentText, shelfText, currentParse, shelfParse, lineEnding) ==
    IF ~currentParse.success \/ ~shelfParse.success
    THEN BuildMarkedFallback(diffLines(currentText, shelfText), <<>>,
                             entryName, lineEnding)
    ELSE JsonConflictText(currentText, currentParse.data, shelfParse.data,
                          findJsonConflicts(currentParse.data, shelfParse.data, <<>>),
                          entryName, lineEnding)

\* The text insertJsonConflictMarkers writes to the target.
JsonMarkedText(entryName, currentText, shelfText, osEOL) ==
    JsonParsedText(entryName, currentText, shelfText,
                   tryParseJson(currentText), tryParseJson(shelfText),
                   LineEndingOf(currentText, shelfText, osEOL))

----------------------------------------------------------------------------
(* Paths and file classification *)

\* A relative path: its directory, base name and extension (path.extname).
TxtExt == <<".", "t", "x", "t">>

JsonExt == <<".", "j", "s", "o", "n">>
JsoncExt == <<".", "j", "s", "o", "n", "c">>

RootFile == [dir |-> ".", name |-> "a", ext |-> TxtExt]
NestedFile == [dir |-> "d", name |-> "b", ext |-> TxtExt]
JsonFile == [dir |-> ".", name |-> "c", ext |-> JsonExt]

Paths == {RootFile, NestedFile, JsonFile}

\* path.dirname(targetPath), relative to the workspace root.
DirName(relativePath) == relativePath.dir

\* path.extname(filePath)
ExtName(filePath) == filePath.ext

UpperChars == <<"C", "J", "N", "O", "S", "T", "X">>
LowerChars == <<"c", "j", "n", "o", "s", "t", "x">>

\* String.prototype.toLowerCase, on the letters extensions are made of.
ToLowerCase(text) ==
    [i \in DOMAIN text |->
        IF \E k \in DOMAIN UpperChars : UpperChars[k] = text[i]
        THEN LowerChars[CHOOSE k \in DOMAIN UpperChars : UpperChars[k] = text[i]]
        ELSE text[i]]

\* Mutant: the extension is compared as it is written.
isJsonFile_CaseSensitive(filePath) ==
    LET ext == ExtName(filePath)
    IN  ext = JsonExt \/ ext = JsoncExt

\* isJsonFile: the extension, lower-cased, is .json or .jsonc.
isJsonFile(filePath) ==
    LET ext == ToLowerCase(ExtName(filePath))
    IN  ext = JsonExt \/ ext = JsoncExt

----------------------------------------------------------------------------
(* Files *)

\* A file that does not exist (fs.existsSync is false).
NoFile == [exists |-> FALSE, bytes |-> <<>>]

File(bytes) == [exists |-> TRUE, bytes |-> bytes]

\* Sample contents: "a\nb\n", "a\nc\n" and "a\nd\n"; {"x":1}, {"x":2} and
\* {"x":3}.
TextAB == <<"a", LF, "b", LF>>
TextAC == <<"a", LF, "c", LF>>
TextAD == <<"a", LF, "d", LF>>
JsonX1 == <<"{", Quote, "x", Quote, ":", "1", "}">>
JsonX2 == <<"{", Quote, "x", Quote, ":", "2", "}">>
JsonX3 == <<"{", Quote, "x", Quote, ":", "3", "}">>

\* The content of the snapshot file of a path, when there is one.
ShelvedText(relativePath) ==
    IF isJsonFile(relativePath) THEN JsonX2 ELSE TextAC

\* The contents the workspace file of a path may have when restore starts:
\* the shelved one or another.
WorkspaceTexts(relativePath) ==
    IF isJsonFile(relativePath) THEN {JsonX1, JsonX2} ELSE {TextAB, TextAC}

\* What another actor saves into the file while its prompt is open.
EditedText(relativePath) ==
    IF isJsonFile(relativePath) THEN JsonX3 ELSE TextAD

\* A byte that is no valid UTF-8, and U+FFFD, which decoding puts in its place.
InvalidByte == "\\xFF"
ReplacementChar == "\\uFFFD"

\* Buffer.prototype.toString('utf8')
toStringUtf8(bytes) ==
    [i \in DOMAIN bytes |->
        IF bytes[i] = InvalidByte THEN ReplacementChar ELSE bytes[i]]

\* entry.name
EntryName == "X"

\* Longest list of relative paths handed to one restore invocation.
MaxFiles == 2

----------------------------------------------------------------------------
(* State *)

VARIABLES
    relativePaths,  \* the ordered list of relative paths to restore
    forceOverride,  \* the shelf.unshelve.forceOverride setting
    osEOL,          \* os.EOL of the host platform
    shelf,          \* the snapshot files under entryDir, by relative path
    ws,             \* the workspace files, by relative path
    dirs,           \* the workspace directories that exist
    next,           \* position in relativePaths of the next file to start
    frames,         \* restoreSingleFile calls suspended at the conflict prompt
    summary,        \* the UnshelveSummary under construction
    pc,             \* "running", "returned" or "threw"
    log,            \* history: the I/O calls, prompts and outcomes so far
    call,           \* a differ or builder called by itself: its arguments
    result,         \* what that call has returned
    entries,        \* ShelfProvider.entries
    storage,        \* the files and directories under globalStoragePath/shelf
    config,         \* shelf.maxItems, and whether a workspace folder is open
    now,            \* the last value Date.now() returned
    last,           \* history: the last shelf command and the state it met
    made            \* history: the entries added and not deleted since

vars ==
    <<relativePaths, forceOverride, osEOL, shelf, ws, dirs, next, frames,
      summary, pc, log, call, result, entries, storage, config, now, last, made>>

\* The state of a restore invocation, and that of a function called by itself.
restoreVars ==
    <<relativePaths, forceOverride, osEOL, shelf, ws, dirs, next, frames,
      summary, pc, log>>

callVars == <<call, result>>

\* The state of the shelf view and of its storage.
providerVars == <<entries, storage, config, now, last, made>>

\* config.get<number>('maxItems', 50)
DefaultMaxItems == 50

NoCommand == [op |-> "none"]

\* No shelf command runs during a restore invocation: an empty storage, an
\* empty view.
ProviderIdle ==
    /\ entries = <<>>
    /\ storage = {}
    /\ config = [maxItems |-> DefaultMaxItems, workspaceFolder |-> TRUE]
    /\ now = 0
    /\ last = NoCommand
    /\ made = {}

\* No function is called by itself during a restore invocation.
NoCall == [fn |-> "none"]
NoResult == [stage |-> "none"]

\* The file system restoreSingleFile works on, and the history of its calls:
\* the workspace root (ws, dirs) and the snapshot root entryDir (shelf), which
\* lies under the extension's global storage, apart from the workspace.
World == [ws |-> ws, dirs |-> dirs, log |-> log, shelf |-> shelf]

Emit(w, e) == [w EXCEPT !.log = Append(@, e)]

\* I/O calls that may fail (throw) while one file is processed.
Faults == {"none", "readShelf", "mkdir", "readTarget", "write"}

\* The buttons of the modal warning; "dismissed" is the undefined answer.
Choices == {"Apply Shelf Version", "Keep Current", "Mark As Conflict", "dismissed"}

----------------------------------------------------------------------------
(* File-system calls *)

\* Mutant: the write goes to the snapshot file instead of the target file.
writeFileSync_IntoSnapshot(w, pos, relativePath, bytes, fault) ==
    IF fault = "write"
    THEN Emit(w, [op |-> "write", pos |-> pos, path |-> relativePath,
                  bytes |-> bytes, ok |-> FALSE])
    ELSE Emit([w EXCEPT !.shelf[relativePath] = File(bytes)],
              [op |-> "write", pos |-> pos, path |-> relativePath,
               bytes |-> bytes, ok |-> TRUE])

\* fs.writeFileSync(targetPath, bytes): creates or replaces the file, or throws.
writeFileSync(w, pos, relativePath, bytes, fault) ==
    IF fault = "write"
    THEN Emit(w, [op |-> "write", pos |-> pos, path |-> relativePath,
                  bytes |-> bytes, ok |-> FALSE])
    ELSE Emit([w EXCEPT !.ws[relativePath] = File(bytes)],
              [op |-> "write", pos |-> pos, path |-> relativePath,
               bytes |-> bytes, ok |-> TRUE])

\* fs.readFileSync(file): the bytes are read, or the call throws.  `which` is
\* "readShelf" for the snapshot file and "readTarget" for the workspace file.
readFileSync(w, pos, relativePath, which, fault) ==
    Emit(w, [op |-> which, pos |-> pos, path |-> relativePath,
             ok |-> fault # which])

\* fs.mkdirSync(targetDir, { recursive: true }): creates the directory, or throws.
mkdirSync(w, pos, relativePath, fault) ==
    IF fault = "mkdir"
    THEN Emit(w, [op |-> "mkdir", pos |-> pos, path |-> relativePath, ok |-> FALSE])
    ELSE Emit([w EXCEPT !.dirs = @ \cup {DirName(relativePath)}],
              [op |-> "mkdir", pos |-> pos, path |-> relativePath, ok |-> TRUE])

----------------------------------------------------------------------------
(* restoreSingleFile *)

NoFrame == [path |-> RootFile, shelfContent |-> <<>>, targetContent |-> <<>>]

\* return { status, conflict }
Return(w, status, conflict) ==
    [kind |-> "return", world |-> w, status |-> status, conflict |-> conflict,
     frame |-> NoFrame]

\* An exception leaves restoreSingleFile.
Throw(w) ==
    [kind |-> "throw", world |-> w, status |-> "error", conflict |-> FALSE,
     frame |-> NoFrame]

\* The call is suspended at `await showDiffForConflict(...)`.
Await(w, relativePath, shelfContent, targetContent) ==
    [kind |-> "await", world |-> w, status |-> "pending", conflict |-> FALSE,
     frame |-> [path |-> relativePath, shelfContent |-> shelfContent,
                targetContent |-> targetContent]]

\* What follows a write that left the world `w`: the exception of a failed
\* write leaves restoreSingleFile, otherwise it returns.
ReturnUnlessThrown(w, fault, status, conflict) ==
    IF fault = "write" THEN Throw(w) ELSE Return(w, status, conflict)

\* Mutant: the status is returned and nothing is written.
WriteThenReturn_NoWrite(w, pos, relativePath, bytes, fault, status, conflict) ==
    ReturnUnlessThrown(w, fault, status, conflict)

\* A write followed by a return, unless the write throws.
WriteThenReturn(w, pos, relativePath, bytes, fault, status, conflict) ==
    ReturnUnlessThrown(writeFileSync(w, pos, relativePath, bytes, fault),
                       fault, status, conflict)

\* Mutant: the forced overwrite reports the conflict flag.
OnDifferingTarget_ForceCounted(w, pos, relativePath, force, fault, shelfContent, targetContent) ==
    IF force
    THEN WriteThenReturn(w, pos, relativePath, shelfContent, fault, "restored", TRUE)
    ELSE Await(Emit(w, [op |-> "prompt", pos |-> pos, path |-> relativePath]),
               relativePath, shelfContent, targetContent)

\* Mutant: the forced overwrite writes the bytes just read from the target.
OnDifferingTarget_ForceWritesCurrent(w, pos, relativePath, force, fault, shelfContent, targetContent) ==
    IF force
    THEN WriteThenReturn(w, pos, relativePath, targetContent, fault, "restored", FALSE)
    ELSE Await(Emit(w, [op |-> "prompt", pos |-> pos, path |-> relativePath]),
               relativePath, shelfContent, targetContent)

\* Mutant: the forceOverride flag is not consulted.
OnDifferingTarget_IgnoreForce(w, pos, relativePath, force, fault, shelfContent, targetContent) ==
    Await(Emit(w, [op |-> "prompt", pos |-> pos, path |-> relativePath]),
          relativePath, shelfContent, targetContent)

\* The target exists and its bytes differ from the snapshot: overwrite under
\* forceOverride, otherwise open the diff and ask.
OnDifferingTarget(w, pos, relativePath, force, fault, shelfContent, targetContent) ==
    IF force
    THEN WriteThenReturn(w, pos, relativePath, shelfContent, fault, "restored", FALSE)
    ELSE Await(Emit(w, [op |-> "prompt", pos |-> pos, path |-> relativePath]),
               relativePath, shelfContent, targetContent)

\* Mutant: the byte comparison is left out, so identical files are treated
\* as differing.
RestoreOntoTarget_NoCompare(w, pos, relativePath, force, fault, shelfContent) ==
    LET target == w.ws[relativePath]
    IN  IF ~target.exists
        THEN WriteThenReturn(w, pos, relativePath, shelfContent, fault,
                             "restored", FALSE)
        ELSE LET w2 == readFileSync(w, pos, relativePath, "readTarget", fault)
             IN  IF fault = "readTarget" THEN Throw(w2)
                 ELSE OnDifferingTarget(w2, pos, relativePath, force, fault,
                                        shelfContent, target.bytes)

\* Mutant: a newly created file is reported with the conflict flag set.
RestoreOntoTarget_NewFileConflict(w, pos, relativePath, force, fault, shelfContent) ==
    LET target == w.ws[relativePath]
    IN  IF ~target.exists
        THEN WriteThenReturn(w, pos, relativePath, shelfContent, fault,
                             "restored", TRUE)
        ELSE LET w2 == readFileSync(w, pos, relativePath, "readTarget", fault)
             IN  IF fault = "readTarget" THEN Throw(w2)
                 ELSE IF shelfContent = target.bytes
                 THEN Return(w2, "identical", FALSE)
                 ELSE OnDifferingTarget(w2, pos, relativePath, force, fault,
                                        shelfContent, target.bytes)

\* The target directory exists: create the file, or compare it with the snapshot.
RestoreOntoTarget(w, pos, relativePath, force, fault, shelfContent) ==
    LET target == w.ws[relativePath]
    IN  IF ~target.exists
        THEN WriteThenReturn(w, pos, relativePath, shelfContent, fault,
                             "restored", FALSE)
        ELSE LET w2 == readFileSync(w, pos, relativePath, "readTarget", fault)
             IN  IF fault = "readTarget" THEN Throw(w2)
                 ELSE IF shelfContent = target.bytes
                 THEN Return(w2, "identical", FALSE)
                 ELSE OnDifferingTarget(w2, pos, relativePath, force, fault,
                                        shelfContent, target.bytes)

\* Mutant: the target directory is created before the snapshot is looked for.
restoreSingleFile_MkdirFirst(w, pos, relativePath, force, fault) ==
    LET w0 == IF DirName(relativePath) \notin w.dirs
              THEN mkdirSync(w, pos, relativePath, fault)
              ELSE w
    IN  IF DirName(relativePath) \notin w0.dirs THEN Throw(w0)
        ELSE IF ~w0.shelf[relativePath].exists THEN Throw(w0)
        ELSE LET shelfContent == w0.shelf[relativePath].bytes
                 w1 == readFileSync(w0, pos, relativePath, "readShelf", fault)
             IN  IF fault = "readShelf" THEN Throw(w1)
                 ELSE RestoreOntoTarget(w1, pos, relativePath, force, fault,
                                        shelfContent)

\* restoreSingleFile up to its return, its throw or its suspension at the prompt.
restoreSingleFile(w, pos, relativePath, force, fault) ==
    IF ~w.shelf[relativePath].exists THEN Throw(w)
    ELSE LET shelfContent == w.shelf[relativePath].bytes
             w1 == readFileSync(w, pos, relativePath, "readShelf", fault)
             w2 == IF DirName(relativePath) \notin w1.dirs
                   THEN mkdirSync(w1, pos, relativePath, fault)
                   ELSE w1
         IN  IF fault = "readShelf" THEN Throw(w1)
             ELSE IF DirName(relativePath) \notin w2.dirs THEN Throw(w2)
             ELSE RestoreOntoTarget(w2, pos, relativePath, force, fault, shelfContent)

\* Mutant: the default branch of the switch applies the shelf version.
showDiffForConflict_DefaultApply(choice) ==
    CASE choice = "Apply Shelf Version" -> "apply"
      [] choice = "Mark As Conflict" -> "mark"
      [] OTHER -> "apply"

\* showDiffForConflict: the switch on the button chosen.  A failure to open
\* the diff editor is caught and logged and changes nothing.
showDiffForConflict(choice) ==
    CASE choice = "Apply Shelf Version" -> "apply"
      [] choice = "Mark As Conflict" -> "mark"
      [] OTHER -> "skip"

\* insertConflictMarkers: the marked text, built by the JSON builder for a
\* JSON file and by the line builder otherwise, is written to the target.
insertConflictMarkers(w, pos, relativePath, entryName, currentContent, shelfContent, fault) ==
    LET currentText == toStringUtf8(currentContent)
        shelfText == toStringUtf8(shelfContent)
    IN  IF isJsonFile(relativePath)
        THEN writeFileSync(Emit(w, [op |-> "build", pos |-> pos,
                                    path |-> relativePath, builder |-> "json"]),
                           pos, relativePath,
                           JsonMarkedText(entryName, currentText, shelfText, osEOL),
                           fault)
        ELSE writeFileSync(Emit(w, [op |-> "build", pos |-> pos,
                                    path |-> relativePath, builder |-> "line"]),
                           pos, relativePath,
                           LineMarkedText(entryName, currentText, shelfText, osEOL),
                           fault)

\* Mutant: `apply` writes the bytes read from the target before the prompt.
AfterResolution_ApplyWritesCurrent(w, pos, frame, resolution, fault) ==
    IF resolution = "apply"
    THEN WriteThenReturn(w, pos, frame.path, frame.targetContent, fault,
                         "restored", TRUE)
    ELSE IF resolution = "mark"
    THEN ReturnUnlessThrown(insertConflictMarkers(w, pos, frame.path, EntryName,
                                                  frame.targetContent,
                                                  frame.shelfContent, fault),
                            fault, "conflictMarked", TRUE)
    ELSE Return(w, "skipped", TRUE)

\* restoreSingleFile after the prompt has been answered.
AfterResolution(w, pos, frame, resolution, fault) ==
    IF resolution = "apply"
    THEN WriteThenReturn(w, pos, frame.path, frame.shelfContent, fault,
                         "restored", TRUE)
    ELSE IF resolution = "mark"
    THEN ReturnUnlessThrown(insertConflictMarkers(w, pos, frame.path, EntryName,
                                                  frame.targetContent,
                                                  frame.shelfContent, fault),
                            fault, "conflictMarked", TRUE)
    ELSE Return(w, "skipped", TRUE)

----------------------------------------------------------------------------
(* restoreFilesFromShelf *)

EmptySummary ==
    [restored |-> 0, skipped |-> 0, identical |-> 0, errors |-> 0,
     conflicts |-> 0, conflictMarkers |-> 0]

\* The body of the try block after restoreSingleFile has returned.
Tally(sum, status, conflict) ==
    LET s1 == IF conflict THEN [sum EXCEPT !.conflicts = @ + 1] ELSE sum
    IN  CASE status = "restored" -> [s1 EXCEPT !.restored = @ + 1]
          [] status = "identical" -> [s1 EXCEPT !.identical = @ + 1]
          [] status = "skipped" -> [s1 EXCEPT !.skipped = @ + 1]
          [] status = "conflictMarked" -> [s1 EXCEPT !.conflictMarkers = @ + 1]
          [] OTHER -> s1

\* Mutant: no catch block, the exception leaves restoreFilesFromShelf.
LoopBody_NoCatch(sum, r) ==
    IF r.kind = "throw"
    THEN [summary |-> sum, pc |-> "threw"]
    ELSE [summary |-> Tally(sum, r.status, r.conflict), pc |-> "running"]

\* One iteration's bookkeeping: the try block, or the catch block on a throw.
LoopBody(sum, r) ==
    IF r.kind = "throw"
    THEN [summary |-> [sum EXCEPT !.errors = @ + 1], pc |-> "running"]
    ELSE [summary |-> Tally(sum, r.status, r.conflict), pc |-> "running"]

\* Mutant: the call is not awaited, the loop starts the next file at once.
LoopMayAdvance_NoAwait(suspended) == TRUE

\* `await restoreSingleFile(...)`: the loop goes on only when no call is
\* suspended.
LoopMayAdvance(suspended) == DOMAIN suspended = {}

\* The history entry closing the processing of one file.
OutcomeEvent(pos, relativePath, r) ==
    [op |-> "outcome", pos |-> pos, path |-> relativePath, status |-> r.status,
     conflict |-> r.conflict, wsAfter |-> r.world.ws[relativePath],
     dirAfter |-> DirName(relativePath) \in r.world.dirs]

\* restoreSingleFile has returned or thrown: the loop body records it.
Complete(pos, relativePath, r) ==
    LET b == LoopBody(summary, r)
    IN  /\ summary' = b.summary
        /\ pc' = b.pc
        /\ log' = Append(r.world.log, OutcomeEvent(pos, relativePath, r))

\* The loop takes the next path and runs restoreSingleFile until it returns,
\* throws or suspends at the prompt.
Begin(fault) ==
    /\ pc = "running"
    /\ next <= Len(relativePaths)
    /\ LoopMayAdvance(frames)
    /\ LET relativePath == relativePaths[next]
           w0 == Emit(World, [op |-> "begin", pos |-> next, path |-> relativePath,
                              shelfWas |-> shelf[relativePath],
                              wsWas |-> ws[relativePath],
                              dirWas |-> DirName(relativePath) \in dirs])
       IN  \E r \in {restoreSingleFile(w0, next, relativePath, forceOverride, fault)} :
           /\ ws' = r.world.ws
           /\ dirs' = r.world.dirs
           /\ shelf' = r.world.shelf
           /\ next' = next + 1
           /\ IF r.kind = "await"
              THEN /\ frames' = frames @@ (next :> r.frame)
                   /\ log' = r.world.log
                   /\ UNCHANGED <<summary, pc>>
              ELSE /\ Complete(next, relativePath, r)
                   /\ UNCHANGED frames
    /\ UNCHANGED <<relativePaths, forceOverride, osEOL, call, result>>
    /\ UNCHANGED providerVars

\* The user answers (or dismisses) the prompt of a suspended call, which then
\* runs to its end.
Resolve(pos, choice, fault) ==
    /\ pc = "running"
    /\ pos \in DOMAIN frames
    /\ LET frame == frames[pos]
           resolution == showDiffForConflict(choice)
           w0 == Emit(World, [op |-> "answer", pos |-> pos, path |-> frame.path,
                              choice |-> choice, resolution |-> resolution,
                              wsWas |-> ws[frame.path]])
       IN  \E r \in {AfterResolution(w0, pos, frame, resolution, fault)} :
           /\ ws' = r.world.ws
           /\ dirs' = r.world.dirs
           /\ shelf' = r.world.shelf
           /\ frames' = [p \in DOMAIN frames \ {pos} |-> frames[p]]
           /\ Complete(pos, frame.path, r)
    /\ UNCHANGED <<relativePaths, forceOverride, osEOL, next, call, result>>
    /\ UNCHANGED providerVars

\* While a prompt is pending, another actor (the user's editor) may save the
\* file the prompt is about.
ExternalEdit(pos) ==
    /\ pc = "running"
    /\ pos \in DOMAIN frames
    /\ ws[frames[pos].path] # File(EditedText(frames[pos].path))
    /\ ws' = [ws EXCEPT ![frames[pos].path] = File(EditedText(frames[pos].path))]
    /\ UNCHANGED <<relativePaths, forceOverride, osEOL, shelf, dirs, next, frames,
                   summary, pc, log, call, result>>
    /\ UNCHANGED providerVars

\* return summary
ReturnSummary ==
    /\ pc = "running"
    /\ next > Len(relativePaths)
    /\ DOMAIN frames = {}
    /\ pc' = "returned"
    /\ UNCHANGED <<relativePaths, forceOverride, osEOL, shelf, ws, dirs, next,
                   frames, summary, log, call, result>>
    /\ UNCHANGED providerVars

----------------------------------------------------------------------------
(* Initial states *)

ShelfStates(relativePath) == {NoFile, File(ShelvedText(relativePath))}

WorkspaceStates(relativePath) ==
    {NoFile} \cup {File(t) : t \in WorkspaceTexts(relativePath)}

AllFileStates ==
    UNION {ShelfStates(p) \cup WorkspaceStates(p) : p \in Paths}

\* Object.keys(entry.files): the paths of the entry in the order they were
\* shelved in.
EntryKeyOrders ==
    {<<RootFile, NestedFile, JsonFile>>, <<JsonFile, NestedFile, RootFile>>}

KeyIndex(keys, relativePath) == CHOOSE i \in DOMAIN keys : keys[i] = relativePath

\* The callers pass Object.keys(entry.files), one of them, or the picked ones
\* in their order: a non-empty list without repetition.
PathLists ==
    {l \in UNION {[1..k -> Paths] : k \in 1..MaxFiles} :
        \E keys \in EntryKeyOrders :
            \A i, j \in DOMAIN l :
                i < j => KeyIndex(keys, l[i]) < KeyIndex(keys, l[j])}

Listed(l) == {l[i] : i \in DOMAIN l}

\* os.EOL of the hosts restore is run on here: a POSIX host.  (It is read
\* only when neither text of a marked file holds a line terminator.)
HostEOLs == {<<LF>>}

\* The snapshot files an entry may hold for the listed paths.
Snapshots(listed) ==
    {f \in [Paths -> AllFileStates] :
        \A p \in Paths :
            /\ f[p] \in ShelfStates(p)
            /\ p \notin listed => f[p] = NoFile}

\* The workspace files restore may find at the listed paths.
Workspaces(listed) ==
    {f \in [Paths -> AllFileStates] :
        \A p \in Paths :
            /\ f[p] \in WorkspaceStates(p)
            /\ p \notin listed => f[p] = NoFile}

\* The directories that may exist: the workspace root, and the directory of
\* every existing file.
Directories(listed, files) ==
    {d \in SUBSET {DirName(p) : p \in listed} \cup {{"."}} :
        /\ "." \in d
        /\ \A p \in Paths : files[p].exists => DirName(p) \in d}

Init ==
    /\ relativePaths \in PathLists
    /\ forceOverride \in BOOLEAN
    /\ osEOL \in HostEOLs
    /\ shelf \in Snapshots(Listed(relativePaths))
    /\ ws \in Workspaces(Listed(relativePaths))
    /\ dirs \in Directories(Listed(relativePaths), ws)
    /\ next = 1
    /\ frames = <<>>
    /\ summary = EmptySummary
    /\ pc = "running"
    /\ log = <<>>
    /\ call = NoCall
    /\ result = NoResult
    /\ ProviderIdle

Next ==
    \/ \E fault \in Faults : Begin(fault)
    \/ \E pos \in DOMAIN frames, choice \in Choices, fault \in {"none", "write"} :
          Resolve(pos, choice, fault)
    \/ \E pos \in DOMAIN frames : ExternalEdit(pos)
    \/ ReturnSummary

Spec == Init /\ [][Next]_vars

\* restoreFilesFromShelf is called once more with the same entry and the
\* same paths, right after it has returned: a new summary, a new loop.  The
\* history starts anew, headed by the summary of the call before.  The
\* second calls followed here are those made after a call that failed on
\* no file (errors = 0).
RestoreAgain ==
    /\ pc = "returned"
    /\ summary.errors = 0
    /\ \A i \in DOMAIN log : log[i].op # "previous"
    /\ next' = 1
    /\ frames' = <<>>
    /\ summary' = EmptySummary
    /\ pc' = "running"
    /\ log' = <<[op |-> "previous", pos |-> 0, summary |-> summary]>>
    /\ UNCHANGED <<relativePaths, forceOverride, osEOL, shelf, ws, dirs, call, result>>
    /\ UNCHANGED providerVars

AgainNext == Next \/ RestoreAgain

AgainSpec == Init /\ [][AgainNext]_vars

----------------------------------------------------------------------------
(* The restore of one file that differs from its snapshot, over a wider    *)
(* choice of extensions and contents and on both kinds of host.            *)

\* Extensions as path.extname yields them: .JSON, .Jsonc, .jso, and none.
UpperJsonExt == <<".", "J", "S", "O", "N">>
MixedJsoncExt == <<".", "J", "s", "o", "n", "c">>
JsoExt == <<".", "j", "s", "o">>
NoExt == <<>>

MarkPaths ==
    {[dir |-> ".", name |-> "m", ext |-> e] :
        e \in {TxtExt, JsonExt, JsoncExt, UpperJsonExt, MixedJsoncExt, JsoExt, NoExt}}

\* { "x":1} (JsonX1 with a space), {"x": (cut short), and {"x":"?"} with a
\* byte that is no valid UTF-8 in the place of the question mark.
JsonX1Spaced == <<"{", Space, Quote, "x", Quote, ":", "1", "}">>
JsonCut == <<"{", Quote, "x", Quote, ":">>
JsonBadByte == <<"{", Quote, "x", Quote, ":", Quote, InvalidByte, Quote, "}">>
JsonReplaced == <<"{", Quote, "x", Quote, ":", Quote, ReplacementChar, Quote, "}">>

\* The contents a file or its snapshot may have, whatever its extension.
MarkTexts ==
    {TextAB, TextAC, JsonX1, JsonX1Spaced, JsonX2, JsonCut, JsonBadByte,
     JsonReplaced}

MarkInit ==
    /\ relativePaths \in {<<p>> : p \in MarkPaths}
    /\ forceOverride = FALSE
    /\ osEOL \in {<<LF>>, <<CR, LF>>}
    /\ \E current, shelved \in MarkTexts :
          /\ current # shelved
          /\ shelf = [p \in MarkPaths |->
                        IF p = relativePaths[1] THEN File(shelved) ELSE NoFile]
          /\ ws = [p \in MarkPaths |->
                     IF p = relativePaths[1] THEN File(current) ELSE NoFile]
    /\ dirs = {"."}
    /\ next = 1
    /\ frames = <<>>
    /\ summary = EmptySummary
    /\ pc = "running"
    /\ log = <<>>
    /\ call = NoCall
    /\ result = NoResult
    /\ ProviderIdle

MarkSpec == MarkInit /\ [][Next]_vars

----------------------------------------------------------------------------
(* findJsonConflicts and buildJsonWithConflicts called by themselves, as   *)
(* insertJsonConflictMarkers calls them, on the values JSON.parse yields.  *)

\* Longest array and largest number of keys of the values drawn.
MaxItems == 2

\* No restore invocation is under way.
RestoreIdleFiles ==
    /\ relativePaths = <<>>
    /\ forceOverride = FALSE
    /\ osEOL = <<LF>>
    /\ shelf = <<>>
    /\ ws = <<>>
    /\ dirs = {}
    /\ next = 1
    /\ frames = <<>>
    /\ summary = EmptySummary
    /\ pc = "idle"
    /\ log = <<>>

\* No restore invocation is under way and no shelf command has run.
RestoreIdle == RestoreIdleFiles /\ ProviderIdle

JTrue == JPrim("boolean", <<"t", "r", "u", "e">>)

\* The values put inside arrays and objects: 1, 2 and null; and the values
\* without parts: these, "1" and true.
JsonLeaves == {JPrim("number", <<"1">>), JPrim("number", <<"2">>), JNull}
JsonPrims == JsonLeaves \cup {JPrim("string", <<"1">>), JTrue}

\* The keys of the objects drawn, "0" being an index key.
KeyNames == <<<<"a">>, <<"0">>, <<"b">>>>

\* The arrays of at most n of the items.
ArraysOf(items, n) ==
    {JArray(kids) : kids \in UNION {[1..k -> items] : k \in 0..n}}

RECURSIVE MakeObject(_, _, _)
\* The object literal holding the members f, written in the order of KeyNames.
MakeObject(f, i, obj) ==
    IF i > Len(KeyNames) THEN obj
    ELSE MakeObject(f, i + 1,
                    IF KeyNames[i] \in DOMAIN f
                    THEN SetKey(obj, KeyNames[i], f[KeyNames[i]])
                    ELSE obj)

\* The objects of at most n members, the keys being the first n of KeyNames.
ObjectsOf(items, n) ==
    LET keys == {KeyNames[i] : i \in {j \in DOMAIN KeyNames : j <= n}}
    IN  {MakeObject(f, 1, JObject(<<>>, <<>>)) :
            f \in UNION {[K -> items] : K \in SUBSET keys}}

ContainersOf(items, n) == ArraysOf(items, n) \cup ObjectsOf(items, n)

\* The values drawn: the values without parts, the arrays and objects of
\* leaves, and smaller such arrays and objects held in an array or under a key.
JsonValues ==
    JsonPrims
    \cup ContainersOf(JsonLeaves, MaxItems)
    \cup {JArray(<<v>>) : v \in ContainersOf(JsonLeaves, MaxItems - 1)}
    \cup {JObject(<<<<"a">>>>, <<v>>) : v \in ContainersOf(JsonLeaves, MaxItems - 1)}

JsonInit ==
    /\ RestoreIdle
    /\ call \in {[fn |-> "findJsonConflicts", current |-> c, shelf |-> s,
                   entryName |-> EntryName, lineEnding |-> <<LF>>] :
                     c \in JsonValues, s \in JsonValues}
    /\ result = NoResult

\* const conflictPaths = findJsonConflicts(currentParse.data, shelfParse.data)
CallFindJsonConflicts ==
    /\ call.fn = "findJsonConflicts"
    /\ result.stage = "none"
    /\ result' = [stage |-> "diffed",
                  conflictPaths |->
                      findJsonConflicts(call.current, call.shelf, <<>>)]
    /\ UNCHANGED <<restoreVars, call, providerVars>>

\* buildJsonWithConflicts(currentData, shelfData, conflictPaths, ...), reached
\* when there is a conflicting path.
CallBuildJsonWithConflicts ==
    /\ result.stage = "diffed"
    /\ result.conflictPaths # <<>>
    /\ result' = [stage |-> "built",
                  conflictPaths |-> result.conflictPaths,
                  text |-> buildJsonWithConflicts(call.current, call.shelf,
                                                  result.conflictPaths,
                                                  call.entryName, call.lineEnding)]
    /\ UNCHANGED <<restoreVars, call, providerVars>>

JsonNext == CallFindJsonConflicts \/ CallBuildJsonWithConflicts

JsonSpec == JsonInit /\ [][JsonNext]_vars

\* The same two calls on objects whose keys hold a '.' or are empty.
\* The keys: "a", "a.b" and "".
DottedKey == <<"a", ".", "b">>
AwkwardKeys == <<<<"a">>, DottedKey, <<>>>>

RECURSIVE MakeAwkward(_, _, _)
\* The object literal holding the members f, written in the order of
\* AwkwardKeys.
MakeAwkward(f, i, obj) ==
    IF i > Len(AwkwardKeys) THEN obj
    ELSE MakeAwkward(f, i + 1,
                     IF AwkwardKeys[i] \in DOMAIN f
                     THEN SetKey(obj, AwkwardKeys[i], f[AwkwardKeys[i]])
                     ELSE obj)

\* 1 and 2, and under "a" also {"b": 1} and {"b": 2}.
AwkwardLeaves == {JPrim("number", <<"1">>), JPrim("number", <<"2">>)}
AwkwardMembers(key) ==
    IF key = <<"a">>
    THEN AwkwardLeaves \cup {JObject(<<<<"b">>>>, <<v>>) : v \in AwkwardLeaves}
    ELSE AwkwardLeaves

AwkwardValues ==
    {MakeAwkward(f, 1, JObject(<<>>, <<>>)) :
        f \in UNION {{g \in [K -> AwkwardLeaves
                                  \cup {JObject(<<<<"b">>>>, <<v>>) : v \in AwkwardLeaves}] :
                         \A k \in K : g[k] \in AwkwardMembers(k)} :
                      K \in SUBSET {AwkwardKeys[i] : i \in DOMAIN AwkwardKeys}}}

KeyInit ==
    /\ RestoreIdle
    /\ call \in {[fn |-> "findJsonConflicts", current |-> c, shelf |-> s,
                   entryName |-> EntryName, lineEnding |-> <<LF>>] :
                     c \in AwkwardValues, s \in AwkwardValues}
    /\ result = NoResult

KeySpec == KeyInit /\ [][JsonNext]_vars

----------------------------------------------------------------------------
(* diffLines and the line-based builder called by themselves, as           *)
(* insertConflictMarkers calls them, on two texts.                         *)

\* Largest number of terminated lines of the texts drawn.
MaxLines == 2

LineBodies == {<<"a">>, <<"b">>}

\* The texts of n terminated lines, each ending in `terminator`.
LinesOf(n, terminator) ==
    IF n = 0 THEN {<<>>}
    ELSE LET RECURSIVE Build(_)
             Build(k) == IF k = 0 THEN {<<>>}
                         ELSE {body \o terminator \o rest :
                                  body \in LineBodies, rest \in Build(k - 1)}
         IN  Build(n)

\* Texts of up to MaxLines terminated lines, LF, CR LF or CR throughout, with
\* or without a last line that has no terminator; the empty text is one.
LineTexts ==
    LET whole == UNION {LinesOf(n, t) : n \in 0..MaxLines,
                                        t \in {<<LF>>, <<CR, LF>>, <<CR>>}}
    IN  whole \cup {w \o body : w \in whole, body \in LineBodies}

LineInit ==
    /\ RestoreIdle
    /\ call \in {[fn |-> "insertConflictMarkers", currentText |-> c, shelfText |-> s,
                   entryName |-> EntryName, osEOL |-> e] :
                     c \in LineTexts, s \in LineTexts, e \in {<<LF>>, <<CR, LF>>}}
    /\ result = NoResult

\* const diffs = diffLines(currentText, shelfText)
CallDiffLines ==
    /\ call.fn = "insertConflictMarkers"
    /\ result.stage = "none"
    /\ result' = [stage |-> "diffed",
                  diffs |-> diffLines(call.currentText, call.shelfText)]
    /\ UNCHANGED <<restoreVars, call, providerVars>>

\* The loop over diffs and builder.join('').
CallBuildMarked ==
    /\ call.fn = "insertConflictMarkers"
    /\ result.stage = "diffed"
    /\ result' = [stage |-> "built",
                  diffs |-> result.diffs,
                  text |-> BuildMarked(result.diffs, <<>>, call.entryName,
                                       LineEndingOf(call.currentText,
                                                    call.shelfText, call.osEOL))]
    /\ UNCHANGED <<restoreVars, call, providerVars>>

LineNext == CallDiffLines \/ CallBuildMarked

LineSpec == LineInit /\ [][LineNext]_vars

----------------------------------------------------------------------------
(* The shelf view (ShelfProvider) and the storage of the shelf entries     *)
(* under globalStoragePath/shelf.  A path is the list of its names below   *)
(* that directory; a name is a string of characters.                       *)

\* Largest value Date.now() returns.
MaxClock == 2

\* Longest list of entries a shelve or an import adds to.
MaxEntries == 2

\* crypto.createHash('md5').update(workspaceUri).digest('hex').substring(0, 8)
WorkspaceHash == <<"h", "a", "s", "h">>

EntryJsonName == <<"e", "n", "t", "r", "y", ".", "j", "s", "o", "n">>

\* A file shelved into the entry's directory.
SnapshotName == <<"f">>

\* path.join(context.globalStoragePath, 'shelf')
ShelfRoot == <<>>

\* getShelfDirectory(context)
getShelfDirectory(workspaceFolder) ==
    IF workspaceFolder THEN <<WorkspaceHash>> ELSE ShelfRoot

DirNode(p) == [path |-> p, kind |-> "dir", text |-> <<>>]
FileNode(p, text) == [path |-> p, kind |-> "file", text |-> text]

\* The path q is p or lies beneath p.
StartsWith(q, p) == Len(p) <= Len(q) /\ SubSeq(q, 1, Len(p)) = p

\* fs.existsSync(p)
StoreExists(st, p) == \E n \in st : n.path = p

\* fs.mkdirSync(p, { recursive: true })
StoreMkdir(st, p) == st \cup {DirNode(SubSeq(p, 1, k)) : k \in 0..Len(p)}

\* fs.rmSync(p, { recursive: true, force: true })
StoreRemove(st, p) == {n \in st : ~StartsWith(n.path, p)}

\* fs.writeFileSync(p, text)
StoreWrite(st, p, text) == {n \in st : n.path # p} \cup {FileNode(p, text)}

\* fs.readFileSync(p, 'utf-8')
StoreRead(st, p) == (CHOOSE n \in st : n.path = p).text

\* fs.readdirSync(p): the names in the directory p.
StoreReaddir(st, p) ==
    {n.path[Len(p) + 1] : n \in {m \in st : Len(m.path) = Len(p) + 1
                                              /\ StartsWith(m.path, p)}}

\* The characters of the sample names that are no letter and no digit.
OtherChars == {Space, "!", "-", "_", "."}

\* name.replace(/[^a-zA-Z0-9]/g, '_')
Sanitize(name) ==
    [i \in DOMAIN name |-> IF name[i] \in OtherChars THEN "_" ELSE name[i]]

\* `${timestamp}-${name.replace(/[^a-zA-Z0-9]/g, '_')}`
EntryIdOf(timestamp, name) == ToDecimal(timestamp) \o <<"-">> \o Sanitize(name)

IdKey == <<"i", "d">>
NameKey == <<"n", "a", "m", "e">>
TimestampKey == <<"t", "i", "m", "e", "s", "t", "a", "m", "p">>

\* A ShelfEntry: its id, name and timestamp (files and workspacePath, which
\* no shelf command reads, are left out).
ShelfEntry(id, name, timestamp) == [id |-> id, name |-> name, timestamp |-> timestamp]

\* JSON.stringify(entry, null, 2)
EntryText(entry) ==
    Stringify(JObject(<<IdKey, NameKey, TimestampKey>>,
                      <<JPrim("string", entry.id), JPrim("string", entry.name),
                        JPrim("number", ToDecimal(entry.timestamp))>>), 0)

\* const entry: ShelfEntry = JSON.parse(content), `parsed` being what the
\* parser made of the content.
EntryOf(parsed) ==
    ShelfEntry(GetKey(parsed.data, IdKey).p, GetKey(parsed.data, NameKey).p,
               KeyNum(GetKey(parsed.data, TimestampKey).p))

\* The directories of shelf/ that hold an entry.json JSON.parse accepts.
Loadable(st) ==
    {d \in StoreReaddir(st, ShelfRoot) :
        /\ StoreExists(st, <<d, EntryJsonName>>)
        /\ tryParseJson(StoreRead(st, <<d, EntryJsonName>>)).success}

\* The entry read from the directory d of shelf/.
LoadedFrom(st, d) == EntryOf(tryParseJson(StoreRead(st, <<d, EntryJsonName>>)))

\* The orders in which entries.sort((a, b) => b.timestamp - a.timestamp) can
\* leave the directories read: newest first, those of one timestamp in the
\* order readdirSync listed them, which the platform chooses.
LoadOrders(st) ==
    {o \in [1..Cardinality(Loadable(st)) -> Loadable(st)] :
        /\ \A i, j \in DOMAIN o : i # j => o[i] # o[j]
        /\ \A i, j \in DOMAIN o :
              i < j => LoadedFrom(st, o[i]).timestamp >= LoadedFrom(st, o[j]).timestamp}

\* ShelfProvider.loadShelfEntries: the entries read in `order`, cut to
\* maxItems, the directories of the entries cut off removed.
loadShelfEntries(st, maxItems, order) ==
    LET loaded == [i \in DOMAIN order |-> LoadedFrom(st, order[i])]
        toRemove == {loaded[i].id : i \in (maxItems + 1)..Len(loaded)}
    IN  IF Len(loaded) > maxItems
        THEN [entries |-> SubSeq(loaded, 1, maxItems),
              storage |-> {n \in st : \A id \in toRemove : ~StartsWith(n.path, <<id>>)},
              removed |-> toRemove]
        ELSE [entries |-> loaded, storage |-> st, removed |-> {}]

\* The names typed into the input box.
ShelfNames == {<<"w", "!">>}

\* The entries of an import file: one exported at time 1.
ImportEntries == {ShelfEntry(EntryIdOf(1, <<"w">>), <<"w">>, 1)}

\* createShelfEntryFromGitFiles up to its throw or its return: the storage
\* it leaves, `shelved` telling whether a file was shelved.
StoreAfterCreate(st, shelfDir, entry, shelved) ==
    LET entryDir == Append(shelfDir, entry.id)
        made1 == StoreMkdir(StoreMkdir(st, shelfDir), entryDir)
    IN  IF shelved
        THEN StoreWrite(StoreWrite(made1, Append(entryDir, SnapshotName), <<"x">>),
                        Append(entryDir, EntryJsonName), EntryText(entry))
        ELSE made1

\* shelveChanges: createShelfEntryFromGitFiles, then addShelfEntry unless
\* the former threw because no file could be shelved.
ShelveChanges(name, t, shelved) ==
    /\ config.workspaceFolder
    /\ Len(entries) <= MaxEntries
    /\ t >= now
    /\ LET entry == ShelfEntry(EntryIdOf(t, name), name, t)
       IN  /\ storage' = StoreAfterCreate(storage, getShelfDirectory(config.workspaceFolder),
                                          entry, shelved)
           /\ entries' = IF shelved THEN Append(entries, entry) ELSE entries
           /\ made' = IF shelved THEN made \cup {[id |-> entry.id, by |-> "shelve"]}
                      ELSE made
           /\ last' = [op |-> "shelve", id |-> entry.id, confirmed |-> shelved,
                       listedWas |-> Len(entries)]
    /\ now' = t
    /\ UNCHANGED <<restoreVars, callVars, config>>

\* importShelves, confirmed, of a file holding one entry.
ImportShelves(imported, t) ==
    /\ Len(entries) <= MaxEntries
    /\ t >= now
    /\ LET shelfDir == getShelfDirectory(config.workspaceFolder)
           entry == IF StoreExists(storage, Append(shelfDir, imported.id))
                    THEN [imported EXCEPT !.id = EntryIdOf(t, imported.name)]
                    ELSE imported
       IN  /\ storage' = StoreAfterCreate(storage, shelfDir, entry, TRUE)
           /\ entries' = Append(entries, entry)
           /\ made' = made \cup {[id |-> entry.id, by |-> "import"]}
           /\ last' = [op |-> "import", id |-> entry.id, confirmed |-> TRUE,
                       listedWas |-> Len(entries)]
    /\ now' = t
    /\ UNCHANGED <<restoreVars, callVars, config>>

\* ShelfProvider.removeShelfEntry
removeShelfEntry(list, entryId) ==
    SelectSeq(list, LAMBDA e : e.id # entryId)

\* deleteShelfItem after the answer to its warning.
DeleteOutcome(list, st, shelfDir, entryId, confirmed) ==
    IF confirmed /\ StoreExists(st, Append(shelfDir, entryId))
    THEN [entries |-> removeShelfEntry(list, entryId),
          storage |-> StoreRemove(st, Append(shelfDir, entryId))]
    ELSE [entries |-> list, storage |-> st]

\* deleteShelfItem(context, item), item being the i-th entry of the view.
DeleteShelfItem(i, confirmed) ==
    /\ i \in DOMAIN entries
    /\ \E r \in {DeleteOutcome(entries, storage, getShelfDirectory(config.workspaceFolder),
                               entries[i].id, confirmed)} :
          /\ entries' = r.entries
          /\ storage' = r.storage
          /\ made' = IF r.entries # entries
                     THEN {m \in made : m.id # entries[i].id} ELSE made
    /\ last' = [op |-> "delete", id |-> entries[i].id, confirmed |-> confirmed,
                listedWas |-> Len(entries)]
    /\ UNCHANGED <<restoreVars, callVars, config, now>>

\* clearAll(context)
ClearAll(confirmed) ==
    /\ LET shelfDir == getShelfDirectory(config.workspaceFolder)
       IN  IF confirmed /\ StoreExists(storage, shelfDir)
           THEN /\ storage' = StoreMkdir(StoreRemove(storage, shelfDir), shelfDir)
                /\ entries' = <<>>
                /\ made' = {}
           ELSE UNCHANGED <<storage, entries, made>>
    /\ last' = [op |-> "clear", id |-> <<>>, confirmed |-> confirmed,
                listedWas |-> Len(entries)]
    /\ UNCHANGED <<restoreVars, callVars, config, now>>

\* ShelfProvider.refresh
Refresh ==
    /\ \E order \in LoadOrders(storage) :
          \E r \in {loadShelfEntries(storage, config.maxItems, order)} :
              /\ entries' = r.entries
              /\ storage' = r.storage
              /\ made' = {m \in made : m.id \notin r.removed}
    /\ last' = [op |-> "refresh", id |-> <<>>, confirmed |-> TRUE,
                listedWas |-> Len(entries)]
    /\ UNCHANGED <<restoreVars, callVars, config, now>>

\* Another window on the same storage deletes the directory of an entry.
ExternalRemove(entryId) ==
    /\ StoreExists(storage, Append(getShelfDirectory(config.workspaceFolder), entryId))
    /\ storage' = StoreRemove(storage,
                              Append(getShelfDirectory(config.workspaceFolder), entryId))
    /\ made' = {m \in made : m.id # entryId}
    /\ last' = [op |-> "external", id |-> entryId, confirmed |-> TRUE,
                listedWas |-> Len(entries)]
    /\ UNCHANGED <<restoreVars, callVars, config, now, entries>>

\* The storages the extension is activated on: none, one written by the
\* release that kept the entries in shelf/ itself, one written by this
\* release for the open workspace, one holding an entry.json cut short.
OldEntry == ShelfEntry(EntryIdOf(1, <<"v">>), <<"v">>, 1)

InitialStorages ==
    {{},
     StoreAfterCreate({}, ShelfRoot, OldEntry, TRUE),
     StoreAfterCreate({}, <<WorkspaceHash>>, OldEntry, TRUE),
     StoreWrite(StoreAfterCreate({}, ShelfRoot, OldEntry, TRUE),
                <<OldEntry.id, EntryJsonName>>, JsonCut)}

MaxItemsSettings == {1, 2}

\* The constructor of ShelfProvider has loaded the entries.
ProviderInit ==
    /\ RestoreIdleFiles
    /\ call = NoCall
    /\ result = NoResult
    /\ config \in [maxItems : MaxItemsSettings, workspaceFolder : BOOLEAN]
    /\ \E st \in InitialStorages :
          \E order \in LoadOrders(st) :
              \E r \in {loadShelfEntries(st, config.maxItems, order)} :
                  /\ entries = r.entries
                  /\ storage = r.storage
    /\ now = 1
    /\ last = NoCommand
    /\ made = {}

ProviderNext ==
    \/ \E name \in ShelfNames, t \in 1..MaxClock, shelved \in BOOLEAN :
          ShelveChanges(name, t, shelved)
    \/ \E imported \in ImportEntries, t \in 1..MaxClock : ImportShelves(imported, t)
    \/ \E i \in DOMAIN entries, confirmed \in BOOLEAN : DeleteShelfItem(i, confirmed)
    \/ \E confirmed \in BOOLEAN : ClearAll(confirmed)
    \/ Refresh
    \/ \E entryId \in {entries[i].id : i \in DOMAIN entries} : ExternalRemove(entryId)

ProviderSpec == ProviderInit /\ [][ProviderNext]_vars

----------------------------------------------------------------------------
(* Reading the history *)

Positions == 1..Len(relativePaths)

\* The indices of the history entries of kind `op` made for position `pos`.
Events(op, pos) == {i \in DOMAIN log : log[i].op = op /\ log[i].pos = pos}

\* An entry of kind `op` was made for position `pos`.
Happened(op, pos) == \E i \in DOMAIN log : log[i].op = op /\ log[i].pos = pos

\* The first entry of kind `op` made for position `pos`.
EventOf(op, pos) ==
    log[CHOOSE i \in DOMAIN log : log[i].op = op /\ log[i].pos = pos]

\* The positions whose processing has ended (an outcome is recorded).
Processed == {pos \in Positions : Happened("outcome", pos)}

BeginOf(pos) == EventOf("begin", pos)
OutcomeOf(pos) == EventOf("outcome", pos)
AnswerOf(pos) == EventOf("answer", pos)

\* What the file system held when the processing of `pos` began.
SnapshotMissing(pos) == ~BeginOf(pos).shelfWas.exists
TargetMissing(pos) ==
    LET b == BeginOf(pos) IN b.shelfWas.exists /\ ~b.wsWas.exists
Identical(pos) ==
    LET b == BeginOf(pos)
    IN  b.shelfWas.exists /\ b.wsWas.exists /\ b.shelfWas.bytes = b.wsWas.bytes
Differing(pos) ==
    LET b == BeginOf(pos)
    IN  b.shelfWas.exists /\ b.wsWas.exists /\ b.shelfWas.bytes # b.wsWas.bytes

\* An I/O call made for `pos` failed.
IOFailed(pos) ==
    \E i \in DOMAIN log :
        /\ log[i].pos = pos
        /\ log[i].op \in {"readShelf", "readTarget", "mkdir", "write"}
        /\ ~log[i].ok

\* A read made for `pos` before the comparison failed.
ReadFailed(pos) ==
    \E i \in DOMAIN log :
        /\ log[i].pos = pos
        /\ log[i].op \in {"readShelf", "readTarget"}
        /\ ~log[i].ok

\* The snapshot of `pos` was missing or one of its I/O calls failed.
FailureAt(pos) == SnapshotMissing(pos) \/ IOFailed(pos)

\* The successful writes made for `pos`.
WritesOf(pos) == {i \in Events("write", pos) : log[i].ok}

SummaryTotal ==
    summary.restored + summary.identical + summary.skipped
    + summary.conflictMarkers + summary.errors

----------------------------------------------------------------------------
(* Claims *)

\* C1: restoreFilesFromShelf never throws; when it returns, every path of
\* the list has been attempted exactly once, in list order, the five outcome
\* counters add up to the length of the list, and errors counts exactly the
\* paths whose snapshot was missing or for which an I/O call failed (a
\* failure at one path stops no later path).
C1_EveryPathAttemptedOnce ==
    /\ pc # "threw"
    /\ pc = "returned" =>
          /\ SummaryTotal = Len(relativePaths)
          /\ \A pos \in Positions :
                /\ Cardinality(Events("begin", pos)) = 1
                /\ Cardinality(Events("outcome", pos)) = 1
                /\ BeginOf(pos).path = relativePaths[pos]
                /\ (OutcomeOf(pos).status = "error") = FailureAt(pos)
          /\ \A i, j \in DOMAIN log :
                log[i].op = "begin" /\ log[j].op = "begin" /\ log[i].pos < log[j].pos
                    => i < j
          /\ summary.errors = Cardinality({pos \in Positions : FailureAt(pos)})

\* Witness of C1: a returned run whose first path failed on a missing
\* snapshot and whose second path was restored after it.
C1_Witness ==
    /\ pc = "returned"
    /\ Len(relativePaths) = 2
    /\ SnapshotMissing(1)
    /\ OutcomeOf(1).status = "error"
    /\ OutcomeOf(2).status = "restored"
    /\ summary.errors = 1

C3_ForceOverwrites ==
    \A pos \in Processed :
        Differing(pos) /\ forceOverride =>
            /\ ~Happened("prompt", pos)
            /\ ~Happened("answer", pos)
            /\ ~IOFailed(pos) =>
                  LET o == OutcomeOf(pos)
                  IN  /\ o.status = "restored"
                      /\ o.wsAfter = File(BeginOf(pos).shelfWas.bytes)
                      /\ Cardinality(WritesOf(pos)) = 1

\* Witness of C3: a differing file processed under force-override and
\* overwritten.
C3_Witness ==
    \E pos \in Processed :
        /\ Differing(pos)
        /\ forceOverride
        /\ OutcomeOf(pos).status = "restored"
        /\ ws[relativePaths[pos]] = shelf[relativePaths[pos]]

\* C4: a path whose snapshot file is missing is recorded as an error and the
\* workspace is left as it was: no mkdir, no write, the destination file and
\* the existence of its directory unchanged.
C4_MissingSnapshotTouchesNothing ==
    \A pos \in Processed :
        SnapshotMissing(pos) =>
            LET b == BeginOf(pos)
                o == OutcomeOf(pos)
            IN  /\ o.status = "error"
                /\ ~Happened("mkdir", pos)
                /\ ~Happened("write", pos)
                /\ o.wsAfter = b.wsWas
                /\ o.dirAfter = b.dirWas

\* Witness of C4: a processed path with no snapshot whose destination
\* directory did not exist, counted as an error.
C4_Witness ==
    \E pos \in Processed :
        /\ SnapshotMissing(pos)
        /\ ~BeginOf(pos).dirWas
        /\ DirName(relativePaths[pos]) \notin dirs
        /\ summary.errors >= 1

\* C5: a destination whose bytes equal the snapshot bytes is not written and
\* not put to the conflict policy; unless the read of it fails, the outcome
\* is `identical` with the conflict flag false.
C5_IdenticalNoWrite ==
    \A pos \in Processed :
        Identical(pos) =>
            LET o == OutcomeOf(pos)
            IN  /\ ~Happened("write", pos)
                /\ ~Happened("prompt", pos)
                /\ o.wsAfter = BeginOf(pos).wsWas
                /\ ~IOFailed(pos) => o.status = "identical" /\ ~o.conflict

\* Witness of C5: a processed path whose destination equalled the snapshot,
\* counted as identical.
C5_Witness ==
    \E pos \in Processed :
        /\ Identical(pos)
        /\ OutcomeOf(pos).status = "identical"
        /\ summary.identical >= 1

\* C6: a destination file that does not exist is never put to the conflict
\* policy and, unless an I/O call fails, is created with the snapshot bytes
\* and reported `restored` with the conflict flag false, whether or not
\* force-override is set.
C6_NewFileRestored ==
    \A pos \in Processed :
        TargetMissing(pos) =>
            /\ ~Happened("prompt", pos)
            /\ ~IOFailed(pos) =>
                  LET o == OutcomeOf(pos)
                  IN  /\ o.status = "restored"
                      /\ ~o.conflict
                      /\ o.wsAfter = File(BeginOf(pos).shelfWas.bytes)
                      /\ o.dirAfter

\* Witness of C6: without force-override, a file is created in a directory
\* that had to be created too, and conflicts stays 0.
C6_Witness ==
    \E pos \in Processed :
        /\ ~forceOverride
        /\ TargetMissing(pos)
        /\ ~BeginOf(pos).dirWas
        /\ OutcomeOf(pos).status = "restored"
        /\ ws[relativePaths[pos]] = shelf[relativePaths[pos]]
        /\ summary.conflicts = 0

\* C7: when the policy returns `apply`, then unless the write fails the
\* destination bytes equal the snapshot bytes once the file is processed and
\* the outcome is `restored` with the conflict flag true.
C7_ApplyOverwrites ==
    \A pos \in Processed :
        (Happened("answer", pos) /\ AnswerOf(pos).resolution = "apply"
            /\ ~IOFailed(pos)) =>
            LET o == OutcomeOf(pos)
            IN  /\ o.status = "restored"
                /\ o.conflict
                /\ o.wsAfter = File(BeginOf(pos).shelfWas.bytes)

\* Witness of C7: the prompt of a differing file answered with Apply Shelf
\* Version, after the file had been changed again while the prompt was open.
C7_Witness ==
    \E pos \in Processed :
        /\ Happened("answer", pos)
        /\ AnswerOf(pos).choice = "Apply Shelf Version"
        /\ AnswerOf(pos).wsWas # BeginOf(pos).wsWas
        /\ OutcomeOf(pos).status = "restored"

\* C8: when the prompt is answered Keep Current or dismissed (any answer but
\* apply and mark), no write is made for the file, the destination is as it
\* was when the answer came, the outcome is `skipped` and it is not an error.
C8_KeepSkips ==
    \A pos \in Processed :
        (Happened("answer", pos)
            /\ AnswerOf(pos).choice \notin {"Apply Shelf Version", "Mark As Conflict"}) =>
            LET o == OutcomeOf(pos)
            IN  /\ ~Happened("write", pos)
                /\ o.wsAfter = AnswerOf(pos).wsWas
                /\ o.status = "skipped"
                /\ summary.errors =
                      Cardinality({q \in Processed \ {pos} :
                                      OutcomeOf(q).status = "error"})

\* Witness of C8: a dismissed prompt, the file skipped and no error counted.
C8_Witness ==
    \E pos \in Processed :
        /\ Happened("answer", pos)
        /\ AnswerOf(pos).choice = "dismissed"
        /\ OutcomeOf(pos).status = "skipped"
        /\ summary.skipped >= 1
        /\ summary.errors = 0

\* C9: the conflict policy is invoked exactly once for each file whose
\* destination existed with bytes different from the snapshot while
\* force-override is off (and whose reads succeeded), and never for any
\* other file.
C9_PromptExactlyWhenDiffering ==
    \A pos \in Processed :
        Cardinality(Events("prompt", pos)) =
            IF Differing(pos) /\ ~forceOverride /\ ~ReadFailed(pos) THEN 1 ELSE 0

\* Witness of C9: a returned run of two files, one prompted once and one
\* (identical) never prompted.
C9_Witness ==
    /\ pc = "returned"
    /\ \E p, q \in Positions :
          /\ Differing(p)
          /\ Cardinality(Events("prompt", p)) = 1
          /\ Identical(q)
          /\ ~Happened("prompt", q)

\* C10: processing is sequential: at most one call is suspended at the
\* prompt, and every read, mkdir, prompt, answer and write made for a file
\* comes after the outcome of every earlier file of the list was recorded.
C10_Sequential ==
    /\ Cardinality(DOMAIN frames) <= 1
    /\ \A j \in DOMAIN log :
          \A pos \in 1..(log[j].pos - 1) :
              \E i \in 1..(j - 1) : log[i].op = "outcome" /\ log[i].pos = pos

\* Witness of C10: two files in turn put to the prompt, the second prompt
\* pending after the first file was resolved by a write.
C10_Witness ==
    /\ Happened("prompt", 1)
    /\ WritesOf(1) # {}
    /\ Happened("outcome", 1)
    /\ 2 \in DOMAIN frames

\* C11: no step of a restore invocation creates, changes or deletes a
\* snapshot file: whatever the outcome of a file (restored, identical,
\* skipped, conflict-marked, error), the snapshot root is after the step what
\* it was before.
C11_SnapshotsUntouched == [][shelf' = shelf]_vars

\* Witness of C11: a returned run in which a file was restored by a write and
\* another was marked (a text that is not the snapshot's was written for
\* it), and the snapshots of both are still what they were.
C11_Witness ==
    /\ pc = "returned"
    /\ \E p, q \in Positions :
          /\ OutcomeOf(p).status = "restored" /\ WritesOf(p) # {}
          /\ OutcomeOf(q).status = "conflictMarked" /\ WritesOf(q) # {}
          /\ shelf[relativePaths[p]] = BeginOf(p).shelfWas
          /\ shelf[relativePaths[q]] = BeginOf(q).shelfWas
          /\ ws[relativePaths[q]] # shelf[relativePaths[q]]

\* C12: when the answer is `mark`, one marker builder is run: the JSON-aware
\* one if the extension of the path, whatever the case of its letters, is
\* .json or .jsonc, and the line-based one for every other path, whatever
\* the contents of the file are; unless the write fails the outcome is
\* `conflictMarked`.
C12_BuilderByExtension ==
    \A pos \in Processed :
        (Happened("answer", pos) /\ AnswerOf(pos).resolution = "mark") =>
            /\ Cardinality(Events("build", pos)) = 1
            /\ (EventOf("build", pos).builder = "json")
                   = (relativePaths[pos].ext \in
                         {<<".", "j", "s", "o", "n">>, <<".", "J", "S", "O", "N">>,
                          <<".", "j", "s", "o", "n", "c">>,
                          <<".", "J", "s", "o", "n", "c">>})
            /\ EventOf("build", pos).builder \in {"json", "line"}
            /\ ~IOFailed(pos) => OutcomeOf(pos).status = "conflictMarked"

\* Witness of C12: a file named .JSON whose two contents are plain lines was
\* marked by the JSON-aware builder.
C12_Witness ==
    /\ pc = "returned"
    /\ relativePaths[1].ext = <<".", "J", "S", "O", "N">>
    /\ Happened("build", 1)
    /\ EventOf("build", 1).builder = "json"
    /\ BeginOf(1).wsWas.bytes = TextAB
    /\ BeginOf(1).shelfWas.bytes = TextAC
    /\ OutcomeOf(1).status = "conflictMarked"
    /\ summary.conflictMarkers = 1

\* C13: when a JSON-typed path is marked and its current text or its shelved
\* text is no JSON document, the text written is exactly the one the
\* line-based builder yields for the same two texts and entry name; unless
\* the write fails, the outcome is `conflictMarked` and no error is counted
\* for the file.
C13_ParseFailureFallsBack ==
    \A pos \in Processed :
        (Happened("build", pos) /\ EventOf("build", pos).builder = "json") =>
            LET currentText == toStringUtf8(BeginOf(pos).wsWas.bytes)
                shelfText == toStringUtf8(BeginOf(pos).shelfWas.bytes)
                o == OutcomeOf(pos)
            IN  (~tryParseJson(currentText).success
                    \/ ~tryParseJson(shelfText).success) =>
                    /\ \A i \in Events("write", pos) :
                          log[i].bytes =
                              LineMarkedText(EntryName, currentText, shelfText, osEOL)
                    /\ ~IOFailed(pos) =>
                          /\ o.status = "conflictMarked"
                          /\ o.wsAfter =
                                File(LineMarkedText(EntryName, currentText,
                                                    shelfText, osEOL))
                          /\ Cardinality(WritesOf(pos)) = 1
                          /\ summary.errors =
                                Cardinality({q \in Processed \ {pos} :
                                                OutcomeOf(q).status = "error"})

\* Witness of C13: a .json file whose current text is cut short, marked
\* against a snapshot that is a JSON document; the file written holds the
\* markers and no error is counted.
C13_Witness ==
    /\ pc = "returned"
    /\ relativePaths[1].ext = <<".", "j", "s", "o", "n">>
    /\ BeginOf(1).wsWas.bytes = JsonCut
    /\ BeginOf(1).shelfWas.bytes = JsonX1
    /\ Happened("build", 1)
    /\ OutcomeOf(1).status = "conflictMarked"
    /\ ws[relativePaths[1]].exists
    /\ \E i \in DOMAIN ws[relativePaths[1]].bytes :
          ws[relativePaths[1]].bytes[i] = StartMarker
    /\ summary.errors = 0

----------------------------------------------------------------------------
(* Reading two JSON values *)

\* The runtime type of a value: object, array, null, number, string, boolean.
RuntimeType(v) == v.t

RECURSIVE ValueAt(_, _)
\* The value found by following `path` from v, JUndefined where there is none.
ValueAt(v, path) ==
    IF path = <<>> THEN v ELSE ValueAt(GetKey(v, Head(path)), Tail(path))

RECURSIVE NodePaths(_)
\* The paths of all the nodes of v, the root's being the empty path.
NodePaths(v) ==
    {<<>>} \cup UNION {{<<ObjectKeys(v)[i]>> \o q : q \in NodePaths(v.kids[i])} :
                          i \in DOMAIN ObjectKeys(v)}

IsProperPrefix(p, q) == Len(p) < Len(q) /\ SubSeq(q, 1, Len(p)) = p

\* How many times the path p is listed in the conflict paths cp.
Occurrences(cp, p) == Cardinality({i \in DOMAIN cp : cp[i] = p})

\* The nodes present on both sides above which the two sides have, node for
\* node, the same runtime type.
SharedNodes(currentVal, shelfVal) ==
    {q \in NodePaths(currentVal) \cap NodePaths(shelfVal) :
        \A k \in 0..(Len(q) - 1) :
            RuntimeType(ValueAt(currentVal, SubSeq(q, 1, k)))
                = RuntimeType(ValueAt(shelfVal, SubSeq(q, 1, k)))}

\* C14 as stated: at every node where the two values have different runtime
\* types (object against array, object or array against a primitive, null
\* against non-null, primitives of two types), findJsonConflicts lists the
\* path of the node, once, and no path beneath it.
C14_DifferentTypesConflict ==
    result.stage # "none" =>
        \A q \in SharedNodes(call.current, call.shelf) :
            RuntimeType(ValueAt(call.current, q))
                # RuntimeType(ValueAt(call.shelf, q)) =>
                /\ Occurrences(result.conflictPaths, q) = 1
                /\ \A i \in DOMAIN result.conflictPaths :
                      ~IsProperPrefix(q, result.conflictPaths[i])

\* C14, what the code does: the same, at every node but those where one
\* side is an array and the other an object.
C14_ExceptArrayAgainstObject ==
    result.stage # "none" =>
        \A q \in SharedNodes(call.current, call.shelf) :
            (/\ RuntimeType(ValueAt(call.current, q))
                    # RuntimeType(ValueAt(call.shelf, q))
             /\ {RuntimeType(ValueAt(call.current, q)),
                 RuntimeType(ValueAt(call.shelf, q))} # {"array", "object"}) =>
                /\ Occurrences(result.conflictPaths, q) = 1
                /\ \A i \in DOMAIN result.conflictPaths :
                      ~IsProperPrefix(q, result.conflictPaths[i])

\* C14, the diverging case: the empty object against the empty array gives
\* no conflict at all.
C14_Witness ==
    /\ result.stage = "diffed"
    /\ call.current = JObject(<<>>, <<>>)
    /\ call.shelf = JArray(<<>>)
    /\ result.conflictPaths = <<>>

\* C15: for every JSON value V (a primitive, null, an array or an object,
\* nested or not), findJsonConflicts(V, V) returns the empty list.
C15_SameValueNoConflict ==
    (result.stage # "none" /\ call.current = call.shelf) =>
        result.conflictPaths = <<>>

\* Witness of C15: the differ was run on twice the same object holding an
\* array with a null in it, and returned no path.
C15_Witness ==
    /\ result.stage = "diffed"
    /\ call.current = call.shelf
    /\ call.current.t = "object"
    /\ \E i \in DOMAIN call.current.kids :
          /\ call.current.kids[i].t = "array"
          /\ \E j \in DOMAIN call.current.kids[i].kids :
                call.current.kids[i].kids[j] = JNull
    /\ result.conflictPaths = <<>>

\* The conflict paths of cp that are p or lie beneath p, in their order.
AtOrBeneath(cp, p) ==
    LET Under(q) == Len(p) <= Len(q) /\ SubSeq(q, 1, Len(p)) = p
    IN  SelectSeq(cp, Under)

Contains(text, part) ==
    \E i \in 0..(Len(text) - Len(part)) : SubSeq(text, i + 1, i + Len(part)) = part

\* The conflict block of the path p: the current sub-value on the left and
\* the shelved one on the right, each pretty-printed, or (deleted) where the
\* side has no value at p.
BlockAt(currentVal, shelfVal, p, entryName, lineEnding) ==
    LET indentStr == Spaces(2 * Len(p))
        Side(v) == IF v = JUndefined THEN <<DeletedLiteral>>
                   ELSE IndentAfterFirst(Stringify(v, 0), indentStr \o Spaces(2))
    IN  <<StartMarker>> \o lineEnding
        \o indentStr \o Spaces(2) \o Side(ValueAt(currentVal, p)) \o lineEnding
        \o indentStr \o <<SepMarker>> \o lineEnding
        \o indentStr \o Spaces(2) \o Side(ValueAt(shelfVal, p)) \o lineEnding
        \o indentStr \o <<EndMarkerPrefix, entryName>> \o lineEnding

\* The number of conflict blocks opened in a text.
BlocksIn(text) == Cardinality({i \in DOMAIN text : text[i] = StartMarker})

\* The path p names a place of an array of the current side at which the
\* current side has no value.
AbsentFromCurrentArray(currentVal, p) ==
    /\ p # <<>>
    /\ RuntimeType(ValueAt(currentVal, SubSeq(p, 1, Len(p) - 1))) = "array"
    /\ ValueAt(currentVal, p) = JUndefined

\* C17 as stated: the text built by buildJsonWithConflicts holds, for every
\* path that findJsonConflicts listed, the conflict block of that path
\* (current sub-value or (deleted) on the left, shelved sub-value or
\* (deleted) on the right), keys and array indices of the shelved side only
\* included, and it holds as many blocks as there are paths.
C17_EveryConflictRendered ==
    result.stage = "built" =>
        /\ \A i \in DOMAIN result.conflictPaths :
              Contains(result.text,
                       BlockAt(call.current, call.shelf, result.conflictPaths[i],
                               call.entryName, call.lineEnding))
        /\ BlocksIn(result.text) = Len(result.conflictPaths)

\* The path p goes through an array of the current side where the shelved
\* side holds an object, not an array.
CurrentArrayOverObject(currentVal, shelfVal, p) ==
    \E k \in 0..(Len(p) - 1) :
        /\ RuntimeType(ValueAt(currentVal, SubSeq(p, 1, k))) = "array"
        /\ RuntimeType(ValueAt(shelfVal, SubSeq(p, 1, k))) # "array"

\* C17, what the code does: a listed path naming a place of a current-side
\* array that the current side does not have (an index of the shelved array
\* beyond the current one's length) gets no block; every other listed path
\* gets one, and it is the block of the claim but where a current array
\* stands over a shelved object, whose values the builder does not read.
C17_ExceptAbsentFromCurrentArray ==
    result.stage = "built" =>
        LET rendered == {i \in DOMAIN result.conflictPaths :
                            ~AbsentFromCurrentArray(call.current,
                                                    result.conflictPaths[i])}
        IN  /\ \A i \in rendered :
                  ~CurrentArrayOverObject(call.current, call.shelf,
                                          result.conflictPaths[i]) =>
                      Contains(result.text,
                               BlockAt(call.current, call.shelf,
                                       result.conflictPaths[i],
                                       call.entryName, call.lineEnding))
            /\ BlocksIn(result.text) = Cardinality(rendered)

\* Witness of C17: [1] against [1,2] has the one conflict path 1, and the
\* text built is the current array, with no block in it.
C17_Witness ==
    /\ result.stage = "built"
    /\ call.current = JArray(<<JPrim("number", <<"1">>)>>)
    /\ call.shelf = JArray(<<JPrim("number", <<"1">>), JPrim("number", <<"2">>)>>)
    /\ result.conflictPaths = <<<<<<"1">>>>>>
    /\ result.text = <<"[", LF, Space, Space, "1", LF, "]">>

\* A shelved-side key of an object is rendered: {"a":1} against
\* {"0":2,"a":1} gives a block with (deleted) on the left.
C17_ShelfOnlyKeyRendered ==
    /\ result.stage = "built"
    /\ call.current = JObject(<<<<"a">>>>, <<JPrim("number", <<"1">>)>>)
    /\ call.shelf = JObject(<<<<"0">>, <<"a">>>>,
                            <<JPrim("number", <<"2">>), JPrim("number", <<"1">>)>>)
    /\ Contains(result.text,
                <<StartMarker, LF, Space, Space, Space, Space, DeletedLiteral, LF,
                  Space, Space, SepMarker, LF, Space, Space, Space, Space, "2", LF,
                  Space, Space, EndMarkerPrefix, EntryName, LF>>)

----------------------------------------------------------------------------
(* Marking a JSON file without conflicting paths *)

\* C18: when a JSON-typed path is marked, both texts are JSON documents and
\* findJsonConflicts lists no path for them, the text written to the target
\* is the current text (the bytes read from the target, decoded as UTF-8),
\* character for character, and not the rendering of the parsed value.
C18_NoConflictKeepsCurrentText ==
    \A pos \in Processed :
        (Happened("build", pos) /\ EventOf("build", pos).builder = "json") =>
            LET currentText == toStringUtf8(BeginOf(pos).wsWas.bytes)
                shelfText == toStringUtf8(BeginOf(pos).shelfWas.bytes)
                currentParse == tryParseJson(currentText)
                shelfParse == tryParseJson(shelfText)
            IN  (/\ currentParse.success
                 /\ shelfParse.success
                 /\ findJsonConflicts(currentParse.data, shelfParse.data, <<>>) = <<>>) =>
                    /\ \A i \in Events("write", pos) : log[i].bytes = currentText
                    /\ ~IOFailed(pos) =>
                          /\ Cardinality(WritesOf(pos)) = 1
                          /\ OutcomeOf(pos).wsAfter = File(currentText)

\* Witness of C18: a .json file holding { "x":1} is marked against the
\* snapshot {"x":1}; the two parse to the same value, and the file holds
\* { "x":1} afterwards, the space kept.
C18_Witness ==
    /\ pc = "returned"
    /\ relativePaths[1].ext = <<".", "j", "s", "o", "n">>
    /\ BeginOf(1).wsWas.bytes = JsonX1Spaced
    /\ BeginOf(1).shelfWas.bytes = JsonX1
    /\ Happened("build", 1)
    /\ Cardinality(WritesOf(1)) = 1
    /\ ws[relativePaths[1]] = File(JsonX1Spaced)
    /\ JsonX1Spaced # Stringify(tryParseJson(JsonX1Spaced).data, 0)

----------------------------------------------------------------------------
(* The line builder and the line differ on two texts *)

\* The texts of the segments of diffs whose tag is not `tag`, put together.
RECURSIVE ConcatExcept(_, _)
ConcatExcept(diffs, tag) ==
    IF diffs = <<>> THEN <<>>
    ELSE (IF Head(diffs).tag = tag THEN <<>> ELSE Head(diffs).value)
         \o ConcatExcept(Tail(diffs), tag)

\* The segments of diffs whose tag is `tag`.
ConcatSegments(diffs, tag) == SelectSeq(diffs, LAMBDA part : part.tag = tag)

IsMarker(c) == c \in {StartMarker, SepMarker, EndMarkerPrefix}

\* C19: the line-based builder run on two identical texts yields that text:
\* no start, separator or end marker line is put in.
C19_IdenticalTextsUnmarked ==
    (result.stage = "built" /\ call.currentText = call.shelfText) =>
        /\ result.text = call.currentText
        /\ \A i \in DOMAIN result.text : ~IsMarker(result.text[i])

\* Witness of C19: the builder has run on two copies of a text of two lines,
\* the last without terminator.
C19_Witness ==
    /\ result.stage = "built"
    /\ call.currentText = <<"a", LF, "b">>
    /\ call.shelfText = <<"a", LF, "b">>
    /\ result.text = <<"a", LF, "b">>

C20_EmptyCurrent ==
    /\ result.stage = "diffed"
    /\ call.currentText = <<>>
    /\ call.shelfText = <<"a", LF, "b", LF>>
    /\ result.diffs = <<[tag |-> "added", value |-> <<"a", LF, "b", LF>>]>>

----------------------------------------------------------------------------
(* The shelf view against its storage *)

\* The entry ids the view lists.
ListedIds == {entries[i].id : i \in DOMAIN entries}

\* C21 as stated: whatever shelve, import, delete, clear-all and refresh
\* commands have run, the view holds no more entries than shelf.maxItems.
C21_WithinMaxItems == Len(entries) <= config.maxItems

\* C21, what the code does: the view holds no more than shelf.maxItems
\* entries when it has just loaded them (at construction and after a
\* refresh), and a delete or a clear-all adds none.
C21_WithinMaxItemsOnceLoaded ==
    /\ last.op \in {"none", "refresh"} => Len(entries) <= config.maxItems
    /\ last.op \in {"delete", "clear", "external"} =>
          Len(entries) <= last.listedWas

\* Witness of C21: a shelve has added an entry to a view that held
\* shelf.maxItems entries already.
C21_Witness ==
    /\ last.op = "shelve"
    /\ last.confirmed
    /\ last.listedWas = config.maxItems
    /\ Len(entries) = config.maxItems + 1

\* C22 as stated: after a refresh, an entry that a shelve created and added
\* to the view, not deleted since, is listed, provided the view held no more
\* than shelf.maxItems entries: loadShelfEntries scans the directory the
\* storage layer wrote its entry.json into.
C22_ShelvedSurvivesRefresh ==
    (last.op = "refresh" /\ last.listedWas <= config.maxItems) =>
        \A m \in made : m.by = "shelve" => m.id \in ListedIds

\* C22, what the code does: with no workspace folder open, where
\* getShelfDirectory is shelf/ itself, an imported entry is listed after a
\* refresh under the same provisos.
C22_SurvivesWithoutWorkspaceFolder ==
    (last.op = "refresh" /\ last.listedWas <= config.maxItems
        /\ ~config.workspaceFolder) =>
        \A m \in made : m.id \in ListedIds

\* Witness of C22: a shelve wrote shelf/<hash>/<id>/entry.json and added the
\* entry; after a refresh the file is there and the view does not list it.
C22_Witness ==
    /\ last.op = "refresh"
    /\ last.listedWas <= config.maxItems
    /\ \E m \in made :
          /\ m.by = "shelve"
          /\ StoreExists(storage, <<WorkspaceHash, m.id, EntryJsonName>>)
          /\ m.id \notin ListedIds

\* A listed entry outlives a refresh where no workspace folder is open.
C22_ImportedStillListed ==
    /\ last.op = "refresh"
    /\ ~config.workspaceFolder
    /\ \E m \in made : m.id \in ListedIds

\* The directory deleteShelfItem takes for the entry's.
EntryDirOf(entryId) == Append(getShelfDirectory(config.workspaceFolder), entryId)

\* C23 as stated: after a confirmed delete of an entry, whatever the storage
\* held, the view does not list the entry and no directory of the entry is
\* left in the storage; a delete that is not confirmed changes neither the
\* entries of the view nor the storage.
C23_ConfirmedDeleteRemoves ==
    [][last'.op = "delete" =>
          /\ last'.confirmed =>
                /\ \A i \in DOMAIN entries' : entries'[i].id # last'.id
                /\ ~StoreExists(storage', <<last'.id>>)
                /\ ~StoreExists(storage', <<WorkspaceHash, last'.id>>)
          /\ ~last'.confirmed => (entries' = entries /\ storage' = storage)]_vars

\* C23, what the code does: the same where the directory
\* getShelfDirectory/<id> exists when the delete is confirmed, and of that
\* directory; where it does not exist, the confirmed delete changes nothing.
C23_DeleteWhereDirectoryExists ==
    [][last'.op = "delete" =>
          /\ (last'.confirmed /\ StoreExists(storage, EntryDirOf(last'.id))) =>
                /\ \A i \in DOMAIN entries' : entries'[i].id # last'.id
                /\ ~StoreExists(storage', EntryDirOf(last'.id))
          /\ (~last'.confirmed \/ ~StoreExists(storage, EntryDirOf(last'.id))) =>
                (entries' = entries /\ storage' = storage)]_vars

\* Witness of C23: a delete was confirmed and the view still lists the
\* entry.
C23_Witness ==
    /\ last.op = "delete"
    /\ last.confirmed
    /\ last.id \in ListedIds

\* A confirmed delete has removed an entry and its directory.
C23_Deleted ==
    /\ last.op = "delete"
    /\ last.confirmed
    /\ last.id \notin ListedIds
    /\ ~StoreExists(storage, EntryDirOf(last.id))
    /\ Len(entries) < last.listedWas

----------------------------------------------------------------------------
(* The blocks of a marked text *)

\* A side of a block: the content, ended by the line ending if it is not
\* empty and does not end in a terminator.
PaddedSide(content, lineEnding) ==
    IF content = <<>> \/ content[Len(content)] \in {LF, CR} THEN content
    ELSE content \o lineEnding

\* A conflict block: start marker line, left side, separator line, right
\* side, end marker line naming the entry.
ConflictBlock(left, right, entryName, lineEnding) ==
    <<StartMarker>> \o lineEnding \o PaddedSide(left, lineEnding)
    \o <<SepMarker>> \o lineEnding \o PaddedSide(right, lineEnding)
    \o <<EndMarkerPrefix, entryName>> \o lineEnding

RECURSIVE Unmarked(_, _, _, _)
\* The marked text without its marker lines and with, of its blocks, the
\* side `keep` only ("left", "right" or "none"); `at` tells where the head
\* of the text stands: "out" of every block, in a "left" or a "right" side.
Unmarked(text, keep, at, lineEnding) ==
    IF text = <<>> THEN <<>>
    ELSE IF Head(text) = StartMarker
    THEN Unmarked(SubSeq(text, 2 + Len(lineEnding), Len(text)), keep, "left", lineEnding)
    ELSE IF Head(text) = SepMarker
    THEN Unmarked(SubSeq(text, 2 + Len(lineEnding), Len(text)), keep, "right", lineEnding)
    ELSE IF Head(text) = EndMarkerPrefix
    THEN Unmarked(SubSeq(text, 3 + Len(lineEnding), Len(text)), keep, "out", lineEnding)
    ELSE (IF at \in {"out", keep} THEN <<Head(text)>> ELSE <<>>)
         \o Unmarked(Tail(text), keep, at, lineEnding)

\* The line ending insertConflictMarkers uses for the call at hand.
CallLineEnding == LineEndingOf(call.currentText, call.shelfText, call.osEOL)

\* The removed text pending when segment j of diffs is met: that of the
\* segment before it if that one is a removed one, none otherwise.
PendingAt(diffs, j) ==
    IF j > 1 /\ diffs[j - 1].tag = "removed" THEN diffs[j - 1].value ELSE <<>>

\* The segments that make a block: the added ones, and the removed ones that
\* no added one follows.
BlockSegments(diffs) ==
    {j \in DOMAIN diffs :
        \/ diffs[j].tag = "added"
        \/ /\ diffs[j].tag = "removed"
           /\ (j = Len(diffs) \/ diffs[j + 1].tag # "added")}

\* C24: in the text of the line-based builder, each added segment gives one
\* block, the removed text gathered since the flush before on its left
\* (none, possibly) and the added text on its right; a removed run followed
\* by an unchanged segment or by the end gives one block with an empty right
\* side; there is no other block (no removed text is carried over a flush);
\* and the unchanged segments stand as they are, in order, outside the blocks.
C24_OneBlockPerChange ==
    result.stage = "built" =>
        LET diffs == result.diffs
        IN  /\ \A j \in BlockSegments(diffs) :
                  Contains(result.text,
                           IF diffs[j].tag = "added"
                           THEN ConflictBlock(PendingAt(diffs, j), diffs[j].value,
                                              call.entryName, CallLineEnding)
                           ELSE ConflictBlock(diffs[j].value, <<>>,
                                              call.entryName, CallLineEnding))
            /\ BlocksIn(result.text) = Cardinality(BlockSegments(diffs))
            /\ Unmarked(result.text, "none", "out", CallLineEnding)
                  = ConcatExcept(ConcatSegments(diffs, "unchanged"), "none")

\* Witness of C24: a\nb\n against a\na\n under the entry name X gives a\n
\* and then the block of b\n and a\n.
C24_Witness ==
    /\ result.stage = "built"
    /\ call.currentText = <<"a", LF, "b", LF>>
    /\ call.shelfText = <<"a", LF, "a", LF>>
    /\ call.entryName = "X"
    /\ result.text = <<"a", LF, StartMarker, LF, "b", LF, SepMarker, LF, "a", LF,
                       EndMarkerPrefix, "X", LF>>

\* Two changes apart: two blocks, the second holding its own removed line
\* only.
C24_TwoBlocks ==
    /\ result.stage = "built"
    /\ call.currentText = <<"a", LF, "a", LF, "a">>
    /\ call.shelfText = <<"b", LF, "a", LF, "b">>
    /\ result.text = <<StartMarker, LF, "a", LF, SepMarker, LF, "b", LF,
                       EndMarkerPrefix, "X", LF,
                       "a", LF,
                       StartMarker, LF, "a", LF, SepMarker, LF, "b", LF,
                       EndMarkerPrefix, "X", LF>>

\* The terminator the claim names: the first of the current text if it has
\* one, else the first of the shelved text, else the host's.
NamedTerminator ==
    IF FirstTerminator(call.currentText) # NoMatch
    THEN FirstTerminator(call.currentText)
    ELSE IF FirstTerminator(call.shelfText) # NoMatch
    THEN FirstTerminator(call.shelfText)
    ELSE call.osEOL

\* The characters of text from place i on, n of them at most.
From(text, i, n) ==
    SubSeq(text, i, IF i + n - 1 <= Len(text) THEN i + n - 1 ELSE Len(text))

\* C25: in one text of the line-based builder the start, separator and end
\* marker lines all end with one terminator, the first (CR LF, LF or CR) of
\* the current text if it has one, else the first of the shelved text, else
\* the host's; and the unchanged segments keep their own terminators.
C25_OneTerminatorForMarkers ==
    result.stage = "built" =>
        /\ \A i \in DOMAIN result.text :
              /\ result.text[i] \in {StartMarker, SepMarker} =>
                    From(result.text, i + 1, Len(NamedTerminator)) = NamedTerminator
              /\ result.text[i] = EndMarkerPrefix =>
                    From(result.text, i + 1, 1 + Len(NamedTerminator))
                        = <<call.entryName>> \o NamedTerminator
        /\ Unmarked(result.text, "none", "out", NamedTerminator)
              = ConcatExcept(ConcatSegments(result.diffs, "unchanged"), "none")

\* Witness of C25: a current text of LF lines against a shelved text of
\* CR LF lines on a CR LF host: the marker lines end in LF, and the CR LF of
\* the shelved line stands in the right side.
C25_Witness ==
    /\ result.stage = "built"
    /\ call.osEOL = <<CR, LF>>
    /\ call.currentText = <<"a", LF>>
    /\ call.shelfText = <<"b", CR, LF>>
    /\ result.text = <<StartMarker, LF, "a", LF, SepMarker, LF, "b", CR, LF,
                       EndMarkerPrefix, "X", LF>>

\* Two texts without terminator: the host's line ending is used.
C25_HostDefault ==
    /\ result.stage = "built"
    /\ call.osEOL = <<CR, LF>>
    /\ call.currentText = <<"a">>
    /\ call.shelfText = <<"b">>
    /\ result.text = <<StartMarker, CR, LF, "a", CR, LF, SepMarker, CR, LF,
                       "b", CR, LF, EndMarkerPrefix, "X", CR, LF>>

----------------------------------------------------------------------------
(* The file a mark leaves *)

\* The text holds a complete conflict block: a start marker, a separator
\* after it and, after that, an end marker naming the entry.
HasCompleteBlock(text, entryName) ==
    \E i, j, k \in DOMAIN text :
        /\ i < j /\ j < k /\ k < Len(text)
        /\ text[i] = StartMarker
        /\ text[j] = SepMarker
        /\ text[k] = EndMarkerPrefix
        /\ text[k + 1] = entryName

\* C26 as stated: whenever the outcome of a file is `conflictMarked`, which
\* conflictMarkers counts, the file holds at least one complete conflict
\* block afterwards, be it a line-based file or a JSON-typed one whose bytes
\* differ from the snapshot's.
C26_MarkedFileHoldsBlock ==
    \A pos \in Processed :
        OutcomeOf(pos).status = "conflictMarked" =>
            HasCompleteBlock(OutcomeOf(pos).wsAfter.bytes, EntryName)

\* C26, what the code does: the file holds a block unless the two texts are
\* the same once decoded, or the file is JSON-typed, both texts parse and
\* the builder renders none of the conflicting paths (there is none, or
\* each names a place a current-side array does not have).
C26_UnlessNothingToRender ==
    \A pos \in Processed :
        OutcomeOf(pos).status = "conflictMarked" =>
            LET currentText == toStringUtf8(BeginOf(pos).wsWas.bytes)
                shelfText == toStringUtf8(BeginOf(pos).shelfWas.bytes)
                currentParse == tryParseJson(currentText)
                shelfParse == tryParseJson(shelfText)
            IN  \/ HasCompleteBlock(OutcomeOf(pos).wsAfter.bytes, EntryName)
                \/ currentText = shelfText
                \/ /\ isJsonFile(relativePaths[pos])
                   /\ currentParse.success
                   /\ shelfParse.success
                   /\ LET cp == findJsonConflicts(currentParse.data, shelfParse.data, <<>>)
                      IN  \A i \in DOMAIN cp :
                              AbsentFromCurrentArray(currentParse.data, cp[i])

\* Witness of C26: a .json file holding { "x":1} was marked against the
\* snapshot {"x":1}: it is counted in conflictMarkers and holds no marker.
C26_Witness ==
    /\ pc = "returned"
    /\ isJsonFile(relativePaths[1])
    /\ BeginOf(1).wsWas.bytes # BeginOf(1).shelfWas.bytes
    /\ OutcomeOf(1).status = "conflictMarked"
    /\ summary.conflictMarkers = 1
    /\ \A i \in DOMAIN ws[relativePaths[1]].bytes :
          ~IsMarker(ws[relativePaths[1]].bytes[i])

\* A line-based file marked: it holds a complete block.
C26_LineFileMarked ==
    /\ pc = "returned"
    /\ ~isJsonFile(relativePaths[1])
    /\ OutcomeOf(1).status = "conflictMarked"
    /\ HasCompleteBlock(ws[relativePaths[1]].bytes, EntryName)

----------------------------------------------------------------------------
(* The places of the blocks of buildJsonWithConflicts *)

RECURSIVE BlockNodes(_, _, _, _)
\* The paths of the nodes at which buildValue returns a conflict block:
\* its walk, the node kept where `isConflict` is true.
BlockNodes(currentVal, shelfVal, path, conflictSet) ==
    IF PathKey(path) \in conflictSet THEN {path}
    ELSE IF currentVal.t = "array"
    THEN LET shelfArray == IF shelfVal.t = "array" THEN shelfVal ELSE JArray(<<>>)
         IN  UNION {BlockNodes(currentVal.kids[i], GetIndex(shelfArray, i - 1),
                               Append(path, ToDecimal(i - 1)), conflictSet) :
                       i \in DOMAIN currentVal.kids}
    ELSE IF currentVal.t = "object"
    THEN LET shelfIsObject == shelfVal.t \in {"array", "object"}
             allKeys == IF shelfIsObject THEN AllKeys(currentVal, shelfVal)
                        ELSE ObjectKeys(currentVal)
         IN  UNION {BlockNodes(GetKey(currentVal, allKeys[i]),
                               IF shelfIsObject THEN GetKey(shelfVal, allKeys[i])
                               ELSE JUndefined,
                               Append(path, allKeys[i]), conflictSet) :
                       i \in DOMAIN allKeys}
    ELSE {}

\* The nodes at which the text built holds a block.
BuiltBlockNodes ==
    BlockNodes(call.current, call.shelf, <<>>, ConflictSet(result.conflictPaths))

ListedPaths == {result.conflictPaths[i] : i \in DOMAIN result.conflictPaths}

\* C27 as stated: buildJsonWithConflicts emits a conflict block at a node
\* only if the path of the node, a sequence of keys and indices, is in the
\* conflict list it was given, keys holding a '.' and the empty key
\* included: two paths are never taken for the same place.
C27_BlockOnlyAtListedPath ==
    result.stage = "built" => BuiltBlockNodes \subseteq ListedPaths

\* C27, what the code does: a block stands at a node only if the path of
\* the node, joined with '.', is the joined path of a listed one; and the
\* text holds one block for each such node.
C27_BlockOnlyAtSameJoinedPath ==
    result.stage = "built" =>
        /\ \A p \in BuiltBlockNodes :
              \E q \in ListedPaths : PathKey(p) = PathKey(q)
        /\ BlocksIn(result.text) = Cardinality(BuiltBlockNodes)

\* Witness of C27: {"a": {"b": 1}, "a.b": 1} against {"a": {"b": 1},
\* "a.b": 2}: the one listed path is ["a.b"], and the text holds a second
\* block, at ["a", "b"], where the two sides are equal.
C27_Witness ==
    /\ result.stage = "built"
    /\ result.conflictPaths = <<<<DottedKey>>>>
    /\ GetKey(call.current, <<"a">>) = GetKey(call.shelf, <<"a">>)
    /\ <<<<"a">>, <<"b">>>> \in BuiltBlockNodes
    /\ BlocksIn(result.text) = 2

\* The empty key: {"": 1} against {"": 2} lists [""], which joins to the
\* joined path of the root, and the whole document becomes one block.
C27_EmptyKeyMarksRoot ==
    /\ result.stage = "built"
    /\ result.conflictPaths = <<<<<<>>>>>>
    /\ BuiltBlockNodes = {<<>>}
    /\ result.text[1] = StartMarker

----------------------------------------------------------------------------
(* Restoring twice *)

\* This is the second call of restoreFilesFromShelf, and in the first every
\* file ended `restored` or `identical`.
SecondAfterApplied ==
    /\ log # <<>>
    /\ log[1].op = "previous"
    /\ log[1].summary.restored + log[1].summary.identical = Len(relativePaths)

\* C28: after a restore call in which every file ended `restored` or
\* `identical`, a call following at once for the same paths, the workspace
\* untouched in between, opens no prompt and writes nothing, finds every
\* file `identical` where no I/O call fails, and, none failing, returns
\* identical = the number of paths and restored = conflicts = skipped =
\* conflictMarkers = errors = 0.
C28_SecondRestoreIdentical ==
    SecondAfterApplied =>
        /\ DOMAIN frames = {}
        /\ \A pos \in Positions :
              /\ ~Happened("answer", pos)
              /\ Events("write", pos) = {}
              /\ Events("build", pos) = {}
        /\ \A pos \in Processed :
              /\ ~IOFailed(pos) => OutcomeOf(pos).status = "identical"
              /\ ~OutcomeOf(pos).conflict
              /\ OutcomeOf(pos).wsAfter = BeginOf(pos).wsWas
        /\ (pc = "returned" /\ \A pos \in Positions : ~IOFailed(pos)) =>
              summary = [EmptySummary EXCEPT !.identical = Len(relativePaths)]

\* Witness of C28: two differing files were overridden by force in the
\* first call, and the second call has returned with identical = 2.
C28_Witness ==
    /\ SecondAfterApplied
    /\ forceOverride
    /\ log[1].summary.restored = 2
    /\ pc = "returned"
    /\ summary.identical = 2

\* The first call overrode a file on the user's answer, counting a
\* conflict; the second call has found the file identical.
C28_AfterAnsweredPrompt ==
    /\ SecondAfterApplied
    /\ log[1].summary.conflicts = 1
    /\ pc = "returned"
    /\ summary.identical = Len(relativePaths)

----------------------------------------------------------------------------
(* A file saved while its prompt is open *)

\* The text insertConflictMarkers builds for a path from a current content.
MarkedTextFor(relativePath, currentContent, shelfContent) ==
    IF isJsonFile(relativePath)
    THEN JsonMarkedText(EntryName, toStringUtf8(currentContent),
                        toStringUtf8(shelfContent), osEOL)
    ELSE LineMarkedText(EntryName, toStringUtf8(currentContent),
                        toStringUtf8(shelfContent), osEOL)

\* The prompt of `pos` was answered with `mark`.
MarkChosen(pos) ==
    Happened("answer", pos) /\ AnswerOf(pos).resolution = "mark"

\* C29 as stated: on `mark` the text written is built from the target file
\* as it is right before the write, so that what another actor saved into
\* the file while the prompt was open is its current side, and not from the
\* content read before the prompt.
C29_MarkReflectsFileAtWrite ==
    \A pos \in Processed :
        MarkChosen(pos) =>
            \A i \in Events("write", pos) :
                log[i].bytes = MarkedTextFor(relativePaths[pos],
                                             AnswerOf(pos).wsWas.bytes,
                                             BeginOf(pos).shelfWas.bytes)

\* C29, what the code does: the text written is built from the content
\* read before the prompt was opened.
C29_MarkReflectsFileBeforePrompt ==
    \A pos \in Processed :
        MarkChosen(pos) =>
            \A i \in Events("write", pos) :
                log[i].bytes = MarkedTextFor(relativePaths[pos],
                                             BeginOf(pos).wsWas.bytes,
                                             BeginOf(pos).shelfWas.bytes)

\* Witness of C29: the file of the first path was saved by another actor
\* while its prompt was open, the answer was `mark`, and the file now holds
\* the marks of the content read before the prompt: the save is lost.
C29_Witness ==
    /\ 1 \in Processed
    /\ MarkChosen(1)
    /\ AnswerOf(1).wsWas = File(EditedText(relativePaths[1]))
    /\ AnswerOf(1).wsWas # BeginOf(1).wsWas
    /\ OutcomeOf(1).status = "conflictMarked"
    /\ OutcomeOf(1).wsAfter.bytes
          = MarkedTextFor(relativePaths[1], BeginOf(1).wsWas.bytes,
                          BeginOf(1).shelfWas.bytes)
    /\ OutcomeOf(1).wsAfter.bytes
          # MarkedTextFor(relativePaths[1], AnswerOf(1).wsWas.bytes,
                          BeginOf(1).shelfWas.bytes)

\* No save in between: the mark is that of the file as it is.
C29_MarkedUntouched ==
    /\ 1 \in Processed
    /\ MarkChosen(1)
    /\ AnswerOf(1).wsWas = BeginOf(1).wsWas
    /\ OutcomeOf(1).status = "conflictMarked"

----------------------------------------------------------------------------
(* Both versions in the marked text *)

\* Every removed and every added segment ends with a line terminator.
ChangedRunsTerminated(diffs) ==
    \A j \in DOMAIN diffs :
        diffs[j].tag \in {"removed", "added"} => EndsWithTerminator(diffs[j].value)

\* C30: when every removed and every added run ends with a line terminator,
\* the text of the line-based builder without its marker lines and without
\* the right side of its blocks is the current text, and without its marker
\* lines and the left side of its blocks it is the shelved text.
C30_BothVersionsKept ==
    (result.stage = "built" /\ ChangedRunsTerminated(result.diffs)) =>
        /\ Unmarked(result.text, "left", "out", CallLineEnding) = call.currentText
        /\ Unmarked(result.text, "right", "out", CallLineEnding) = call.shelfText

\* Witness of C30: a\nb\n against b\na\n has been marked; a line was
\* removed and a line added, each with its terminator, and the two texts
\* are read back from the sides.
C30_Witness ==
    /\ result.stage = "built"
    /\ call.currentText = <<"a", LF, "b", LF>>
    /\ call.shelfText = <<"b", LF, "a", LF>>
    /\ ChangedRunsTerminated(result.diffs)
    /\ \E j \in DOMAIN result.diffs : result.diffs[j].tag = "removed"
    /\ \E j \in DOMAIN result.diffs : result.diffs[j].tag = "added"
    /\ Unmarked(result.text, "left", "out", CallLineEnding) = call.currentText
    /\ Unmarked(result.text, "right", "out", CallLineEnding) = call.shelfText

\* Where a changed run has no terminator the builder puts one in, and the
\* side read back is longer than the text: a against b.
C30_PaddedSideDiffers ==
    /\ result.stage = "built"
    /\ call.currentText = <<"a">>
    /\ call.shelfText = <<"b">>
    /\ ~ChangedRunsTerminated(result.diffs)
    /\ Unmarked(result.text, "left", "out", CallLineEnding) = <<"a">> \o call.osEOL

====
